---- MODULE Spec2Model ----
(***************************************************************************)
(* Model of the recommendation pipeline of somethingtowatch:               *)
(* server/src/index.ts, app.post('/api/recommend') (Spec), the rate        *)
(* limiter and its middleware (SpecRate), and handleSubmit of              *)
(* client/src/App.tsx reading one response (SpecClient).                   *)
(*                                                                         *)
(* Strings the code inspects (titles, description, stream bytes) are       *)
(* sequences of ASCII codes; an optional value (JS undefined/null) is a    *)
(* sequence of length 0 (None) or 1 (Some(x)).  JS indices are 0-based,    *)
(* the sequences here are 1-based.                                         *)
(***************************************************************************)
EXTENDS Integers, Sequences, FiniteSets, TLC

VARIABLES
    env,           \* process.env: which credentials are configured
    request,       \* the request that arrived (None before it arrives)
    response,      \* the Response the handler returned (None before it returns)
    pc,            \* position of the handler: idle, returned, phase1, phase2, selecting,
                   \* narrating, closed, errored
    body,          \* the parsed request body (fields may be absent)
    world,         \* the catalog the TMDB API answers from during this request
    log,           \* history: enqueues, issued calls, close and error, in program order
    filterResult,  \* settled result of the extraction call
    discoverFetches, \* settled results of the five discover queries
    descSearches,  \* settled results of the search queries
    pool,          \* the merged candidate pool, after the tail shuffle
    descCount,     \* length of the priority prefix
    poolSlice,     \* the truncated pool given to curation
    picks,         \* selection.object.picks
    pickedItems,   \* the validated picks
    textStream,    \* chunks the narration call has not delivered yet
    cancelled,     \* the transport has cancelled the response stream: the client is gone
    rateMap,       \* the rate limiter's Map: client key -> None or Some([count, resetAt])
    now,           \* Date.now(), in milliseconds
    ticks,         \* how many times the clock has advanced
    nextSweep,     \* when the setInterval timer is next due
    served,        \* what the middleware did with the latest /api/* request (None before)
    windowOf,      \* history: per client key, the start of its current window and the
                   \* number of requests allowed in it
    unswept,       \* history: the Map as it would be had the sweep never run
    searchState,   \* the client's React state: status, foundCount, completion, error
    submit,        \* the running handleSubmit: its position and its locals
    wire,          \* what the network still holds of the response the client reads
    statusTrace,   \* history: the status set by each setSearchState call, in order
    earlier,       \* an earlier handleSubmit that is still running when the user submits again
    earlierWire    \* what the network still holds of the response the earlier call reads

rateVars == <<rateMap, now, ticks, nextSweep, served, windowOf, unswept>>

clientVars == <<searchState, submit, wire, statusTrace, earlier, earlierWire>>

\* what the start callback of the stream never assigns
outsideStart == <<env, request, response, cancelled, rateVars, clientVars>>

vars == <<env, request, response, pc, body, world, log, filterResult, discoverFetches, descSearches,
          pool, descCount, poolSlice, picks, pickedItems, textStream, cancelled,
          rateMap, now, ticks, nextSweep, served, windowOf, unswept,
          searchState, submit, wire, statusTrace, earlier, earlierWire>>

----------------------------------------------------------------------------
(* Bounds of the model *)

\* Math.random() is drawn from {0/RandDenom, ..., (RandDenom-1)/RandDenom}
RandDenom == 2
\* the draws of one shuffle repeat with this period
RandPeriod == 1

----------------------------------------------------------------------------
(* Optional values and strings *)

None == <<>>
Some(x) == <<x>>

\* a ?? b
Coalesce(a, b) == IF a # None THEN a[1] ELSE b

Range(s) == {s[i] : i \in 1..Len(s)}

\* String.prototype.toLowerCase on ASCII
ToLowerCase(s) == [i \in 1..Len(s) |-> IF s[i] >= 65 /\ s[i] <= 90 THEN s[i] + 32 ELSE s[i]]

IsWhiteSpace(c) == c \in {9, 10, 11, 12, 13, 32}

\* String.prototype.trim
RECURSIVE TrimStart(_)
TrimStart(s) ==
    IF s = <<>> THEN s
    ELSE IF IsWhiteSpace(Head(s)) THEN TrimStart(Tail(s)) ELSE s

RECURSIVE TrimEnd(_)
TrimEnd(s) ==
    IF s = <<>> THEN s
    ELSE IF IsWhiteSpace(s[Len(s)]) THEN TrimEnd(SubSeq(s, 1, Len(s) - 1)) ELSE s

Trim(s) == TrimEnd(TrimStart(s))

\* String.prototype.slice(0, n)
Slice(s, n) == SubSeq(s, 1, IF Len(s) < n THEN Len(s) ELSE n)

\* String(n) for a non-negative integer
RECURSIVE ToDecimal(_)
ToDecimal(n) ==
    IF n < 10 THEN <<48 + n>>
    ELSE Append(ToDecimal(n \div 10), 48 + (n % 10))

\* [].concat(...seqs)
RECURSIVE Flatten(_)
Flatten(seqs) ==
    IF seqs = <<>> THEN <<>> ELSE Head(seqs) \o Flatten(Tail(seqs))

----------------------------------------------------------------------------
(* Request bodies *)

\* ASCII strings used by the inputs
strIN == <<73, 78>>
strIn == <<73, 110>>
strUp == <<85, 112>>
strup == <<117, 112>>
strHer == <<72, 101, 114>>
strHER == <<72, 69, 82>>
strRan == <<82, 97, 110>>
strm105 == <<109, 49, 48, 53>>
strHeist == <<104, 101, 105, 115, 116>>
strBlank == <<32, 32>>
strDate == <<50, 48, 49, 48, 45, 48, 55, 45, 49, 54>>
strPoster == <<47, 112, 46, 106, 112, 103>>
strFromDiscover == <<100>>
strFromSearch == <<115>>

AbsentBody ==
    [country |-> None, providerIds |-> None, mediaType |-> None, genres |-> None,
     moods |-> None, styles |-> None, description |-> None, liked |-> None,
     disliked |-> None]

\* the request bodies the model submits
Bodies ==
    { AbsentBody,
      [AbsentBody EXCEPT !.country = Some("DE"), !.providerIds = Some(<<8, 337>>),
                         !.mediaType = Some("tv"), !.genres = Some(<<"Comedy", "Noir">>),
                         !.moods = Some(<<"Cosy">>)],
      [AbsentBody EXCEPT !.mediaType = Some("movie"), !.description = Some(strBlank),
                         !.liked = Some(<<strIN>>), !.providerIds = Some(<<>>)],
      [AbsentBody EXCEPT !.description = Some(strHeist), !.disliked = Some(<<strup, strm105>>),
                         !.genres = Some(<<"Sci-Fi", "Crime">>)],
      [AbsentBody EXCEPT !.description = Some(strHeist), !.mediaType = Some("tv"),
                         !.liked = Some(<<strHER>>), !.disliked = Some(<<strRan>>),
                         !.providerIds = Some(<<8>>), !.styles = Some(<<"Noir">>)] }

\* a destructuring whose media type defaults to the other kind
DestructureTvDefault(b) ==
    [country     |-> Coalesce(b.country, "US"),
     providerIds |-> Coalesce(b.providerIds, <<>>),
     mediaType   |-> Coalesce(b.mediaType, "tv"),
     genres      |-> Coalesce(b.genres, <<>>),
     moods       |-> Coalesce(b.moods, <<>>),
     styles      |-> Coalesce(b.styles, <<>>),
     description |-> Coalesce(b.description, <<>>),
     liked       |-> Coalesce(b.liked, <<>>),
     disliked    |-> Coalesce(b.disliked, <<>>)]

\* the destructuring with defaults at the head of the handler
Destructure(b) ==
    [country     |-> Coalesce(b.country, "US"),
     providerIds |-> Coalesce(b.providerIds, <<>>),
     mediaType   |-> Coalesce(b.mediaType, "movie"),
     genres      |-> Coalesce(b.genres, <<>>),
     moods       |-> Coalesce(b.moods, <<>>),
     styles      |-> Coalesce(b.styles, <<>>),
     description |-> Coalesce(b.description, <<>>),
     liked       |-> Coalesce(b.liked, <<>>),
     disliked    |-> Coalesce(b.disliked, <<>>)]

MOVIE_GENRE_IDS ==
    [g \in {"Action", "Adventure", "Animation", "Comedy", "Crime", "Documentary",
            "Drama", "Fantasy", "Horror", "Mystery", "Romance", "Sci-Fi", "Thriller",
            "Family", "History", "Music", "War", "Western"} |->
        CASE g = "Action" -> 28 [] g = "Adventure" -> 12 [] g = "Animation" -> 16
          [] g = "Comedy" -> 35 [] g = "Crime" -> 80 [] g = "Documentary" -> 99
          [] g = "Drama" -> 18 [] g = "Fantasy" -> 14 [] g = "Horror" -> 27
          [] g = "Mystery" -> 9648 [] g = "Romance" -> 10749 [] g = "Sci-Fi" -> 878
          [] g = "Thriller" -> 53 [] g = "Family" -> 10751 [] g = "History" -> 36
          [] g = "Music" -> 10402 [] g = "War" -> 10752 [] g = "Western" -> 37]

TV_GENRE_IDS ==
    [g \in {"Action", "Animation", "Comedy", "Crime", "Documentary", "Drama",
            "Fantasy", "Family", "Mystery", "Sci-Fi", "War", "Western", "Romance",
            "Horror", "Thriller"} |->
        CASE g = "Action" -> 10759 [] g = "Animation" -> 16 [] g = "Comedy" -> 35
          [] g = "Crime" -> 80 [] g = "Documentary" -> 99 [] g = "Drama" -> 18
          [] g = "Fantasy" -> 10765 [] g = "Family" -> 10751 [] g = "Mystery" -> 9648
          [] g = "Sci-Fi" -> 10765 [] g = "War" -> 10768 [] g = "Western" -> 37
          [] g = "Romance" -> 10749 [] g = "Horror" -> 27 [] g = "Thriller" -> 53]

\* genres.flatMap(g => genreIdMap[g] != null ? [genreIdMap[g]] : [])
SelectedGenreIds(req) ==
    LET genreIdMap == IF req.mediaType = "movie" THEN MOVIE_GENRE_IDS ELSE TV_GENRE_IDS
    IN  Flatten([i \in 1..Len(req.genres) |->
                    IF req.genres[i] \in DOMAIN genreIdMap
                    THEN <<genreIdMap[req.genres[i]]>> ELSE <<>>])

\* Array.prototype.join of numbers with a one-character separator
RECURSIVE JoinNumbers(_, _)
JoinNumbers(ns, sep) ==
    IF ns = <<>> THEN <<>>
    ELSE IF Len(ns) = 1 THEN ToDecimal(ns[1])
    ELSE ToDecimal(ns[1]) \o <<sep>> \o JoinNumbers(Tail(ns), sep)

----------------------------------------------------------------------------
(* The catalog (TMDB) *)

\* a catalog entry before it is rendered as a movie or a TV record
Entry(id, text, overview) ==
    [id |-> id, text |-> text, date |-> Some(strDate), overview |-> Some(overview),
     vote |-> Some(74), poster |-> Some(strPoster)]

\* the title of the generated entry with identifier n: "M" followed by the digits of n
GenTitle(n) == <<77>> \o ToDecimal(n)

GenEntry(n) == Entry(Some(n), Some(GenTitle(n)), strFromDiscover)

GenPage(lo, hi) == [i \in 1..(hi - lo + 1) |-> GenEntry(lo + i - 1)]

eIn == Entry(Some(1), Some(strIn), strFromDiscover)
eUp == Entry(Some(2), Some(strUp), strFromDiscover)
eHer == Entry(Some(3), Some(strHer), strFromDiscover)
eUntitled == [Entry(Some(4), None, strFromDiscover) EXCEPT !.date = None, !.poster = None,
                                                           !.vote = None]
eNoId == Entry(None, Some(strRan), strFromDiscover)
sUp == Entry(Some(2), Some(strUp), strFromSearch)
sHer == Entry(Some(3), Some(strHer), strFromSearch)
sRan == Entry(Some(9), Some(strRan), strFromSearch)
sNoId == Entry(None, Some(strIn), strFromSearch)

SearchTerms == {"q1", "q2", "q3", "t1", "t2"}

\* a small catalog: repeated identifiers inside and across pages, a page without
\* results field, entries without id or title, search hits inside and outside the
\* discover results
SmallWorld ==
    [discover |-> <<Some(<<eIn, eUp, eIn>>), Some(<<eUp, eHer>>), None,
                    Some(<<eHer, eNoId, eUntitled>>), Some(<<>>)>>,
     search   |-> [t \in SearchTerms |->
                    CASE t = "q1" -> Some(<<sRan, sUp>>)
                      [] t = "q2" -> Some(<<sHer, sNoId, sUp>>)
                      [] t = "q3" -> None
                      [] t = "t1" -> Some(<<sUp, sRan>>)
                      [] t = "t2" -> Some(<<>>)]]

\* a catalog whose discover pages hold 20 results each, 34 distinct identifiers
LargeWorld ==
    [discover |-> <<Some(GenPage(101, 120)), Some(GenPage(115, 134)), Some(<<>>),
                    Some(<<GenEntry(101)>>), None>>,
     search   |-> [t \in SearchTerms |->
                    CASE t = "q1" -> Some(<<GenEntry(130), GenEntry(105), GenEntry(999)>>)
                      [] t = "q2" -> Some(<<GenEntry(105)>>)
                      [] t = "q3" -> Some(<<>>)
                      [] t = "t1" -> Some(<<GenEntry(999)>>)
                      [] t = "t2" -> None]]

Worlds == {SmallWorld, LargeWorld}

\* a catalog entry as TMDB returns it for the media type of the path;
\* vote_average is kept in tenths
AsItem(e, mediaType) ==
    IF mediaType = "movie"
    THEN [id |-> e.id, title |-> e.text, name |-> None, release_date |-> e.date,
          first_air_date |-> None, overview |-> e.overview, vote_average |-> e.vote,
          poster_path |-> e.poster]
    ELSE [id |-> e.id, title |-> None, name |-> e.text, release_date |-> None,
          first_air_date |-> e.date, overview |-> e.overview, vote_average |-> e.vote,
          poster_path |-> e.poster]

\* the JSON body of a TMDB response: {results?: TmdbItem[]}
AsResponse(page, mediaType) ==
    [results |-> IF page = None THEN None
                 ELSE Some([i \in 1..Len(page[1]) |-> AsItem(page[1][i], mediaType)])]

\* which of the catalog's discover pages a discover query selects
DiscoverPage(params) ==
    IF params["sort_by"] = "popularity.desc"
    THEN (IF params["page"] = "1" THEN 1 ELSE IF params["page"] = "2" THEN 2 ELSE 3)
    ELSE (IF params["page"] = "1" THEN 4 ELSE 5)

\* what TMDB answers to a call when the call succeeds
TmdbAnswer(w, call) ==
    IF call.path = "/discover/movie" THEN AsResponse(w.discover[DiscoverPage(call.params)], "movie")
    ELSE IF call.path = "/discover/tv" THEN AsResponse(w.discover[DiscoverPage(call.params)], "tv")
    ELSE IF call.path = "/search/movie" THEN AsResponse(w.search[call.params["query"]], "movie")
    ELSE AsResponse(w.search[call.params["query"]], "tv")

\* the settled results of a promise; tmdbFetch throws when the response is not ok
Rejected == [status |-> "rejected", value |-> None]
Fulfilled(v) == [status |-> "fulfilled", value |-> Some(v)]

----------------------------------------------------------------------------
(* Discover parameters and the calls of phase 1 *)

\* {...base, ...overrides}
Spread(base, overrides) == overrides @@ base

\* base parameters whose provider-less branch sets the region alone
BaseParamsRegionOnly(req) ==
    LET selectedGenreIds == SelectedGenreIds(req)
        defaults == ("vote_count.gte" :> "40") @@ ("vote_average.gte" :> "5.5")
        withGenres == IF Len(selectedGenreIds) > 0
                      THEN Spread(defaults, "with_genres" :> JoinNumbers(selectedGenreIds, 44))
                      ELSE defaults
    IN  IF Len(req.providerIds) > 0
        THEN Spread(withGenres, ("with_watch_providers" :> JoinNumbers(req.providerIds, 124))
                                @@ ("watch_region" :> req.country))
        ELSE Spread(withGenres, "watch_region" :> req.country)

\* baseParams
BaseParams(req) ==
    LET selectedGenreIds == SelectedGenreIds(req)
        defaults == ("vote_count.gte" :> "40") @@ ("vote_average.gte" :> "5.5")
        withGenres == IF Len(selectedGenreIds) > 0
                      THEN Spread(defaults, "with_genres" :> JoinNumbers(selectedGenreIds, 44))
                      ELSE defaults
    IN  IF Len(req.providerIds) > 0
        THEN Spread(withGenres, ("with_watch_providers" :> JoinNumbers(req.providerIds, 124))
                                @@ ("watch_region" :> req.country))
        ELSE Spread(withGenres, ("watch_region" :> req.country)
                                @@ ("with_watch_monetization_types" :> "flatrate|free|ads"))

TmdbCall(path, params) == [ev |-> "tmdbFetch", arg |-> [path |-> path, params |-> params]]

\* the five discover fetches, in the order of the Promise.allSettled array
DiscoverCalls(req) ==
    LET baseParams == BaseParams(req)
        path == IF req.mediaType = "movie" THEN "/discover/movie" ELSE "/discover/tv"
        popular(p) == Spread(baseParams, ("sort_by" :> "popularity.desc") @@ ("page" :> p))
        rated(p) == Spread(baseParams, ("sort_by" :> "vote_average.desc")
                                       @@ ("vote_count.gte" :> "150") @@ ("page" :> p))
    IN  << TmdbCall(path, popular("1")), TmdbCall(path, popular("2")),
           TmdbCall(path, popular("3")), TmdbCall(path, rated("1")),
           TmdbCall(path, rated("2")) >>

\* description.trim() ? generateObject(...) : Promise.resolve(null)
ExtractionCalls(req) ==
    IF Trim(req.description) # <<>>
    THEN << [ev |-> "generateObject",
             arg |-> [purpose |-> "extract", description |-> req.description]] >>
    ELSE << >>

MaxSearchQueries == 3
MaxSimilarTitles == 3

\* an extraction schema without the .max(3) bounds
ExtractionSchemaNoMax(o) == TRUE

\* the zod schema of the extraction call
ExtractionSchema(o) ==
    /\ Len(o.searchQueries) <= MaxSearchQueries
    /\ Len(o.similarTitles) <= MaxSimilarTitles

\* the objects the extraction model call may produce before schema validation
ExtractionOutputs ==
    { [searchQueries |-> <<>>, similarTitles |-> <<>>],
      [searchQueries |-> <<"q1">>, similarTitles |-> <<"t1">>],
      [searchQueries |-> <<"q2", "q3">>, similarTitles |-> <<"t2">>],
      [searchQueries |-> <<"q1", "q2", "q3", "q1">>, similarTitles |-> <<"t1", "t2", "t1">>] }

FulfilledNull == [status |-> "fulfilled", value |-> None]

\* how the first element of the Promise.allSettled array may settle
FilterOutcomes(req) ==
    IF Trim(req.description) # <<>>
    THEN {Rejected} \cup {Fulfilled([object |-> o]) : o \in {x \in ExtractionOutputs : ExtractionSchema(x)}}
    ELSE {FulfilledNull}

\* the search fetches of phase 2: one per search query, then one per similar title
SearchCalls(req, object) ==
    LET path == IF req.mediaType = "movie" THEN "/search/movie" ELSE "/search/tv"
        call(q) == TmdbCall(path, ("query" :> q) @@ ("include_adult" :> "false"))
    IN  [i \in 1..Len(object.searchQueries) |-> call(object.searchQueries[i])]
        \o [i \in 1..Len(object.similarTitles) |-> call(object.similarTitles[i])]

----------------------------------------------------------------------------
(* The candidate pool *)

MaxCandidates == 30

\* res.value.results ?? []
ResultsOf(res) == Coalesce(res.value[1].results, <<>>)

\* what a settled fetch contributes: nothing unless it is fulfilled
Contribution(res) == IF res.status = "fulfilled" THEN ResultsOf(res) ELSE <<>>

\* descriptionPool
DescriptionPool(searches) == Flatten([i \in 1..Len(searches) |-> Contribution(searches[i])])

\* discoverIds
DiscoverIds(fetches) ==
    {item.id[1] : item \in {it \in Range(Flatten([i \in 1..Len(fetches) |-> Contribution(fetches[i])])) :
                               it.id # None}}

\* priorityDesc
PriorityDesc(descriptionPool, discoverIds) ==
    LET valid(item) == item.id # None /\ item.id[1] \in discoverIds
    IN  IF Cardinality(discoverIds) > 0
        THEN SelectSeq(descriptionPool, valid)
        ELSE descriptionPool

\* one deduplicating loop: push the items whose id is set and not seen yet
RECURSIVE AddUnseen(_, _)
AddUnseen(items, acc) ==
    IF items = <<>> THEN acc
    ELSE LET item == Head(items)
         IN  IF item.id = None \/ item.id[1] \in acc.seen
             THEN AddUnseen(Tail(items), acc)
             ELSE AddUnseen(Tail(items),
                            [seen |-> acc.seen \cup {item.id[1]}, pool |-> Append(acc.pool, item)])

\* the merge: priority items, descCount, then the discover results fetch by fetch
RECURSIVE AddFetches(_, _)
AddFetches(fetches, acc) ==
    IF fetches = <<>> THEN acc
    ELSE AddFetches(Tail(fetches), AddUnseen(Contribution(Head(fetches)), acc))

\* a merge whose second loop starts with an empty seen set
MergeForgetsPriority(priorityDesc, fetches) ==
    LET first == AddUnseen(priorityDesc, [seen |-> {}, pool |-> <<>>])
    IN  [pool |-> AddFetches(fetches, [seen |-> {}, pool |-> first.pool]).pool,
         descCount |-> Len(first.pool)]

Merge(priorityDesc, fetches) ==
    LET first == AddUnseen(priorityDesc, [seen |-> {}, pool |-> <<>>])
    IN  [pool |-> AddFetches(fetches, first).pool, descCount |-> Len(first.pool)]

\* Math.floor(Math.random() * (i + 1)) for the k-th draw of the stream rnd
Draw(rnd, k, i) == (rnd[((k - 1) % Len(rnd)) + 1] * (i + 1)) \div RandDenom

Swap(s, a, b) == [s EXCEPT ![a] = s[b], ![b] = s[a]]

\* the Fisher-Yates loop over tail, i counting down to 1 (0-based), k the draw number
RECURSIVE ShuffleFrom(_, _, _, _)
ShuffleFrom(tail, i, rnd, k) ==
    IF i <= 0 THEN tail
    ELSE ShuffleFrom(Swap(tail, i + 1, Draw(rnd, k, i) + 1), i - 1, rnd, k + 1)

\* a shuffle that runs over the whole pool instead of the tail
WholeShuffle(merged, count, rnd) == ShuffleFrom(merged, Len(merged) - 1, rnd, 1)

\* const tail = pool.splice(descCount); shuffle tail; pool.push(...tail)
TailShuffle(merged, count, rnd) ==
    LET tail == SubSeq(merged, count + 1, Len(merged))
    IN  SubSeq(merged, 1, count) \o ShuffleFrom(tail, Len(tail) - 1, rnd, 1)

RandomStreams == [1..RandPeriod -> 0..(RandDenom - 1)]

\* r.title ?? r.name ?? dflt
TitleOf(r, dflt) == IF r.title # None THEN r.title[1] ELSE Coalesce(r.name, dflt)

\* a seen set built without lower-casing the entries
SeenTitlesExact(liked, disliked) == Range(liked) \cup Range(disliked)

\* seenTitles
SeenTitles(liked, disliked) ==
    {ToLowerCase(t) : t \in Range(liked)} \cup {ToLowerCase(t) : t \in Range(disliked)}

\* freshPool
FreshPool(p, seenTitles) ==
    LET fresh(r) == ToLowerCase(TitleOf(r, <<>>)) \notin seenTitles
    IN  IF Cardinality(seenTitles) > 0 THEN SelectSeq(p, fresh) ELSE p

\* a truncation that keeps the last 30 items
TruncateTail(freshPool) == SubSeq(freshPool, IF Len(freshPool) < MaxCandidates
                                             THEN 1 ELSE Len(freshPool) - MaxCandidates + 1,
                                  Len(freshPool))

\* freshPool.slice(0, 30)
Truncate(freshPool) == SubSeq(freshPool, 1, IF Len(freshPool) < MaxCandidates
                                              THEN Len(freshPool) ELSE MaxCandidates)

\* a marker that reports the truncated list
FoundCountOfSlice(p, slice) == Len(slice)

\* N of the marker [FOUND:N]
FoundCount(p, slice) == Len(p)

----------------------------------------------------------------------------
(* The curation stage *)

MaxIndex == 29
MinPicks == 3
MaxPicks == 5

strUnknown == <<85, 110, 107, 110, 111, 119, 110>>
strCosy == <<67, 111, 115, 121>>
strDark == <<68, 97, 114, 107>>

\* (r.release_date ?? r.first_air_date ?? '').slice(0, 4)
YearOf(r) == Slice(IF r.release_date # None THEN r.release_date[1]
                   ELSE Coalesce(r.first_air_date, <<>>), 4)

\* lines.join('\n')
RECURSIVE JoinLines(_)
JoinLines(lines) ==
    IF lines = <<>> THEN <<>>
    ELSE IF Len(lines) = 1 THEN lines[1]
    ELSE lines[1] \o <<10>> \o JoinLines(Tail(lines))

\* r.vote_average?.toFixed(1) ?? '?', the average given in tenths
RatingOf(r) ==
    IF r.vote_average = None THEN <<63>>
    ELSE ToDecimal(r.vote_average[1] \div 10) \o <<46>> \o ToDecimal(r.vote_average[1] % 10)

\* `${i}. ${title} (${year}) [${rating}\u2605] \u2014 ${overview}`
NumberedLine(r, i) ==
    ToDecimal(i) \o <<46, 32>> \o TitleOf(r, strUnknown) \o <<32, 40>> \o YearOf(r)
        \o <<41, 32, 91>> \o RatingOf(r) \o <<9733, 93, 32, 8212, 32>>
        \o Slice(Coalesce(r.overview, <<>>), 150)

\* numberedList: the candidates of the selection prompt, numbered from 0
NumberedList(slice) == JoinLines([i \in 1..Len(slice) |-> NumberedLine(slice[i], i - 1)])

\* the first line of the selection prompt
Wants(req) == IF req.mediaType = "movie" THEN "a movie" ELSE "a TV show"

\* prefsParts: each line is present (Some) or null and filtered out (None)
PrefsParts(req) ==
    [Genres   |-> IF Len(req.genres) > 0 THEN Some(req.genres) ELSE None,
     Mood     |-> IF Len(req.moods) > 0 THEN Some(req.moods) ELSE None,
     Style    |-> IF Len(req.styles) > 0 THEN Some(req.styles) ELSE None,
     Notes    |-> IF req.description # <<>> THEN Some(req.description) ELSE None,
     services |-> IF Len(req.providerIds) > 0 THEN Some(req.country) ELSE None]

\* feedbackParts, in the same way
FeedbackParts(req) ==
    [enjoyed  |-> IF Len(req.liked) > 0 THEN Some(req.liked) ELSE None,
     disliked |-> IF Len(req.disliked) > 0 THEN Some(req.disliked) ELSE None]

\* a schema without the upper bound on index
SelectionSchemaNoMax(ps) ==
    /\ Len(ps) >= MinPicks /\ Len(ps) <= MaxPicks
    /\ \A k \in 1..Len(ps) : ps[k].index >= 0

\* the zod schema of the selection call
SelectionSchema(ps) ==
    /\ Len(ps) >= MinPicks /\ Len(ps) <= MaxPicks
    /\ \A k \in 1..Len(ps) : ps[k].index >= 0 /\ ps[k].index <= MaxIndex

Pick(i, v) == [index |-> i, vibe |-> v]

\* the objects the selection model call may produce before schema validation
SelectionOutputs ==
    { <<Pick(0, strCosy), Pick(1, strDark), Pick(2, strCosy)>>,
      <<Pick(2, strDark), Pick(29, strCosy), Pick(28, strCosy), Pick(2, strCosy)>>,
      <<Pick(4, strCosy), Pick(3, strCosy), Pick(29, strDark), Pick(1, strCosy), Pick(0, strDark)>>,
      <<Pick(0, strCosy), Pick(30, strCosy), Pick(1, strCosy)>>,
      <<Pick(0, strCosy), Pick(0 - 1, strCosy), Pick(1, strCosy)>>,
      <<Pick(0, strCosy), Pick(1, strCosy)>> }

\* a validation that clamps an out-of-range index into the pool instead of dropping the pick
ValidatePicksClamped(ps, slice) ==
    LET clamp(i) == IF i < 0 THEN 0 ELSE IF i >= Len(slice) THEN Len(slice) - 1 ELSE i
        kept == IF slice = <<>> THEN <<>> ELSE ps
    IN  [k \in 1..Len(kept) |->
            LET r == slice[clamp(kept[k].index) + 1]
            IN  [title    |-> TitleOf(r, strUnknown),
                 year     |-> YearOf(r),
                 overview |-> Slice(Coalesce(r.overview, <<>>), 200),
                 img      |-> <<>>,
                 vibe     |-> kept[k].vibe]]

\* a validation that keeps every pick and names the missing items 'Unknown'
ValidatePicksUnknown(ps, slice) ==
    [k \in 1..Len(ps) |->
        IF ps[k].index >= 0 /\ ps[k].index < Len(slice)
        THEN LET r == slice[ps[k].index + 1]
             IN  [title    |-> TitleOf(r, strUnknown),
                  year     |-> YearOf(r),
                  overview |-> Slice(Coalesce(r.overview, <<>>), 200),
                  img      |-> <<>>,
                  vibe     |-> ps[k].vibe]
        ELSE [title |-> strUnknown, year |-> <<>>, overview |-> <<>>, img |-> <<>>,
              vibe |-> ps[k].vibe]]

\* Step 2: filter the picks by index, then map them to the pool items
ValidatePicks(ps, slice) ==
    LET inRange(p) == p.index >= 0 /\ p.index < Len(slice)
        kept == SelectSeq(ps, inRange)
    IN  [k \in 1..Len(kept) |->
            LET r == slice[kept[k].index + 1]
            IN  [title    |-> TitleOf(r, strUnknown),
                 year     |-> YearOf(r),
                 overview |-> Slice(Coalesce(r.overview, <<>>), 200),
                 img      |-> IF r.poster_path # None /\ r.poster_path[1] # <<>>
                              THEN <<32, 91, 105, 109, 103, 58>> \o r.poster_path[1] \o <<93>>
                              ELSE <<>>,
                 vibe     |-> kept[k].vibe]]

\* `${p.title} (${p.year})${p.img} · ${p.vibe} — ${p.overview}`
PickLine(p) ==
    p.title \o <<32, 40>> \o p.year \o <<41>> \o p.img \o <<32, 183, 32>> \o p.vibe
            \o <<32, 8212, 32>> \o p.overview

\* pickedText
PickedText(items) == JoinLines([k \in 1..Len(items) |-> PickLine(items[k])])

\* the chunk sequences the narration call may deliver
NarrationOutputs == { <<>>, << <<42, 42, 77, 42, 42>>, <<10, 95, 87, 95>> >> }

----------------------------------------------------------------------------
(* The response stream *)

\* '[SEARCHING]\n'
SearchingMarker == <<91, 83, 69, 65, 82, 67, 72, 73, 78, 71, 93, 10>>

\* `[FOUND:${n}]\n`
FoundMarker(n) == <<91, 70, 79, 85, 78, 68, 58>> \o ToDecimal(n) \o <<93, 10>>

\* controller.enqueue(encoder.encode(data)) at the named place of the handler
Enqueue(at, data) == [ev |-> "enqueue", arg |-> [at |-> at, data |-> data]]
Close == [ev |-> "close", arg |-> None]
Error == [ev |-> "error", arg |-> None]

\* a start that issues phase 1 before it enqueues the marker
StartEventsCallsFirst(req) ==
    ExtractionCalls(req) \o DiscoverCalls(req) \o <<Enqueue("searching", SearchingMarker)>>

\* a start that already announces a count before the pool is built
StartEventsWithFound(req) ==
    <<Enqueue("searching", SearchingMarker), Enqueue("found", FoundMarker(0))>>
        \o ExtractionCalls(req) \o DiscoverCalls(req)

\* the synchronous head of start(controller): marker first, then the calls of phase 1
StartEvents(req) ==
    <<Enqueue("searching", SearchingMarker)>> \o ExtractionCalls(req) \o DiscoverCalls(req)

\* Promise.all in place of Promise.allSettled: the await throws when a promise rejects
PromiseAll(results) ==
    [threw |-> \E i \in 1..Len(results) : results[i].status = "rejected", value |-> results]

\* what awaiting Promise.allSettled yields: it never rejects
AllSettled(results) == [threw |-> FALSE, value |-> results]

----------------------------------------------------------------------------
(* The rate limiter *)

RATE_WINDOW_MS == 60000
RATE_LIMIT == 20
SWEEP_INTERVAL_MS == 300000

\* the clock advances at most this many times
MaxTicks == 2

\* the amounts the clock advances by
TimeSteps == {1, RATE_WINDOW_MS, SWEEP_INTERVAL_MS}

\* values of the x-forwarded-for header: absent, "a", " a,b"
ForwardedFor == {None, Some(<<97>>), Some(<<32, 97, 44, 98>>)}

\* String.prototype.split(',')[0]
RECURSIVE FirstPart(_)
FirstPart(s) ==
    IF s = <<>> \/ Head(s) = 44 THEN <<>> ELSE <<Head(s)>> \o FirstPart(Tail(s))

strUnknownIp == <<117, 110, 107, 110, 111, 119, 110>>

\* getClientIp
GetClientIp(header) == IF header = None THEN strUnknownIp ELSE Trim(FirstPart(header[1]))

ClientKeys == {GetClientIp(h) : h \in ForwardedFor}

\* a limiter that admits one request more before it refuses
CheckRateLimitOffByOne(map, ip, t) ==
    LET entry == map[ip] IN
    IF entry = None \/ t > entry[1].resetAt
    THEN [map |-> [map EXCEPT ![ip] = Some([count |-> 1, resetAt |-> t + RATE_WINDOW_MS])],
          allowed |-> TRUE, remaining |-> RATE_LIMIT - 1, resetAt |-> t + RATE_WINDOW_MS]
    ELSE IF entry[1].count > RATE_LIMIT
    THEN [map |-> map, allowed |-> FALSE, remaining |-> 0, resetAt |-> entry[1].resetAt]
    ELSE [map |-> [map EXCEPT ![ip] = Some([entry[1] EXCEPT !.count = @ + 1])],
          allowed |-> TRUE, remaining |-> RATE_LIMIT - (entry[1].count + 1),
          resetAt |-> entry[1].resetAt]

\* a limiter that counts the requests it refuses
CheckRateLimitCountsDenied(map, ip, t) ==
    LET entry == map[ip] IN
    IF entry = None \/ t > entry[1].resetAt
    THEN [map |-> [map EXCEPT ![ip] = Some([count |-> 1, resetAt |-> t + RATE_WINDOW_MS])],
          allowed |-> TRUE, remaining |-> RATE_LIMIT - 1, resetAt |-> t + RATE_WINDOW_MS]
    ELSE IF entry[1].count >= RATE_LIMIT
    THEN [map |-> [map EXCEPT ![ip] = Some([entry[1] EXCEPT !.count = @ + 1])],
          allowed |-> FALSE, remaining |-> 0, resetAt |-> entry[1].resetAt]
    ELSE [map |-> [map EXCEPT ![ip] = Some([entry[1] EXCEPT !.count = @ + 1])],
          allowed |-> TRUE, remaining |-> RATE_LIMIT - (entry[1].count + 1),
          resetAt |-> entry[1].resetAt]

\* checkRateLimit(ip) at Date.now() = t: the Map afterwards and the returned object
CheckRateLimit(map, ip, t) ==
    LET entry == map[ip] IN
    IF entry = None \/ t > entry[1].resetAt
    THEN [map |-> [map EXCEPT ![ip] = Some([count |-> 1, resetAt |-> t + RATE_WINDOW_MS])],
          allowed |-> TRUE, remaining |-> RATE_LIMIT - 1, resetAt |-> t + RATE_WINDOW_MS]
    ELSE IF entry[1].count >= RATE_LIMIT
    THEN [map |-> map, allowed |-> FALSE, remaining |-> 0, resetAt |-> entry[1].resetAt]
    ELSE [map |-> [map EXCEPT ![ip] = Some([entry[1] EXCEPT !.count = @ + 1])],
          allowed |-> TRUE, remaining |-> RATE_LIMIT - (entry[1].count + 1),
          resetAt |-> entry[1].resetAt]

\* Math.ceil(resetAt / 1000)
CeilSeconds(ms) == (ms + 999) \div 1000

\* the window of client key ip at time t, as the history records it: a window ends once
\* more than RATE_WINDOW_MS have passed since its first request
Recorded(w, ip, t, allowed) ==
    IF w[ip] = None \/ t > w[ip][1].start + RATE_WINDOW_MS
    THEN [w EXCEPT ![ip] = Some([start |-> t, allowed |-> IF allowed THEN 1 ELSE 0])]
    ELSE [w EXCEPT ![ip] = Some([@[1] EXCEPT !.allowed = IF allowed THEN @ + 1 ELSE @])]

\* app.use('/api/*', ...): one request with this x-forwarded-for header passes through
\* the middleware; next |-> TRUE means the route handler was run
ApiRequest(header) ==
    LET ip == GetClientIp(header)
        r == CheckRateLimit(rateMap, ip, now)
    IN  /\ rateMap' = r.map
        /\ served' = Some([ip |-> ip,
                           limit |-> RATE_LIMIT,
                           remaining |-> r.remaining,
                           reset |-> CeilSeconds(r.resetAt),
                           status |-> IF r.allowed THEN 200 ELSE 429,
                           error |-> IF r.allowed THEN ""
                                     ELSE "Too many requests. Please wait a minute.",
                           next |-> r.allowed])
        /\ windowOf' = Recorded(windowOf, ip, now, r.allowed)
        /\ unswept' = CheckRateLimit(unswept, ip, now).map
        /\ UNCHANGED <<now, ticks, nextSweep>>

\* time passes
Tick(d) ==
    /\ ticks < MaxTicks
    /\ now' = now + d
    /\ ticks' = ticks + 1
    /\ UNCHANGED <<rateMap, nextSweep, served, windowOf, unswept>>

\* a sweep that also removes the entries whose window ends at this very millisecond
SweepEager ==
    /\ now >= nextSweep
    /\ rateMap' = [k \in ClientKeys |->
                     IF rateMap[k] # None /\ now >= rateMap[k][1].resetAt THEN None
                     ELSE rateMap[k]]
    /\ nextSweep' = nextSweep + SWEEP_INTERVAL_MS
    /\ UNCHANGED <<now, ticks, served, windowOf, unswept>>

\* the setInterval callback, once it is due
Sweep ==
    /\ now >= nextSweep
    /\ rateMap' = [k \in ClientKeys |->
                     IF rateMap[k] # None /\ now > rateMap[k][1].resetAt THEN None
                     ELSE rateMap[k]]
    /\ nextSweep' = nextSweep + SWEEP_INTERVAL_MS
    /\ UNCHANGED <<now, ticks, served, windowOf, unswept>>

----------------------------------------------------------------------------
(* The client: handleSubmit of App.tsx *)

\* a response is split into at most this many chunks
MaxChunks == 3

strHi == <<32, 72, 105, 10>>
strTwoMarkers == <<65>> \o FoundMarker(4) \o <<66>>
strTooMany == <<84, 111, 111, 32, 109, 97, 110, 121>>

\* the bodies a streamed response may carry, with the way the stream ends
StreamedBodies ==
    { [bytes |-> SearchingMarker \o FoundMarker(12) \o strHi, ending |-> "close"],
      [bytes |-> SearchingMarker \o FoundMarker(0), ending |-> "close"],
      [bytes |-> SearchingMarker \o FoundMarker(5) \o strBlank, ending |-> "close"],
      [bytes |-> SearchingMarker \o FoundMarker(3) \o strTwoMarkers, ending |-> "close"],
      [bytes |-> SearchingMarker \o FoundMarker(7) \o strHi, ending |-> "error"],
      [bytes |-> SearchingMarker, ending |-> "error"] }

\* the chunks of bytes when it is cut after the positions in cuts
RECURSIVE SplitAt(_, _)
SplitAt(bytes, cuts) ==
    IF cuts = {} THEN <<bytes>>
    ELSE LET c == CHOOSE x \in cuts : \A y \in cuts : x <= y
         IN  <<SubSeq(bytes, 1, c)>>
             \o SplitAt(SubSeq(bytes, c + 1, Len(bytes)), {y - c : y \in cuts \ {c}})

\* the sets of at most k cut positions among 1..n
RECURSIVE CutSets(_, _)
CutSets(n, k) ==
    IF n = 0 \/ k = 0 THEN {{}}
    ELSE CutSets(n - 1, k) \cup {c \cup {n} : c \in CutSets(n - 1, k - 1)}

\* every way of splitting bytes into 1..MaxChunks non-empty chunks
Chunkings(bytes) ==
    { SplitAt(bytes, cuts) : cuts \in CutSets(Len(bytes) - 1, MaxChunks - 1) }

\* what fetch may yield: a rejected promise, a response that is not ok with a JSON error
\* body, or a streamed response in some chunking
Wires ==
    { [kind |-> "unreachable", status |-> 0, error |-> None, chunks |-> <<>>,
       ending |-> "error"],
      [kind |-> "refused", status |-> 429, error |-> Some(strTooMany), chunks |-> <<>>,
       ending |-> "close"],
      [kind |-> "refused", status |-> 500, error |-> None, chunks |-> <<>>,
       ending |-> "close"] }
    \cup UNION { { [kind |-> "stream", status |-> 200, error |-> None, chunks |-> cs,
                    ending |-> b.ending] : cs \in Chunkings(b.bytes) } :
                  b \in StreamedBodies }

NoResponse ==
    [kind |-> "unreachable", status |-> 0, error |-> None, chunks |-> <<>>, ending |-> "error"]

\* the regular expression /\[FOUND:(\d+)\]\n/ against buffer
IsDigit(c) == c \in 48..57

RECURSIVE DigitRun(_, _)
DigitRun(buffer, i) ==
    IF i <= Len(buffer) /\ IsDigit(buffer[i]) THEN <<buffer[i]>> \o DigitRun(buffer, i + 1)
    ELSE <<>>

MatchesAt(buffer, i) ==
    /\ i + 6 <= Len(buffer)
    /\ SubSeq(buffer, i, i + 6) = <<91, 70, 79, 85, 78, 68, 58>>
    /\ LET d == DigitRun(buffer, i + 7) IN
       /\ Len(d) >= 1
       /\ i + 8 + Len(d) <= Len(buffer)
       /\ buffer[i + 7 + Len(d)] = 93
       /\ buffer[i + 8 + Len(d)] = 10

\* buffer.match(...): None, or the match with its 0-based index, m[0].length and m[1]
Match(buffer) ==
    LET hits == {i \in 1..Len(buffer) : MatchesAt(buffer, i)} IN
    IF hits = {} THEN None
    ELSE LET i == CHOOSE x \in hits : \A y \in hits : x <= y
             d == DigitRun(buffer, i + 7)
         IN  Some([index |-> i - 1, length |-> 9 + Len(d), group |-> d])

\* parseInt of a string of decimal digits
RECURSIVE ParseInt(_)
ParseInt(d) ==
    IF d = <<>> THEN 0 ELSE 10 * ParseInt(SubSeq(d, 1, Len(d) - 1)) + (d[Len(d)] - 48)

\* buffer.slice(start)
SliceFrom(buffer, start) == SubSeq(buffer, start + 1, Len(buffer))

\* setSearchState((prev) => ({ ...prev, ...fields }))
Update(status, fields) == [status |-> status, fields |-> fields]

NoFields == [f \in {} |-> None]

\* a loop body that looks for the marker again in every iteration
LoopBodyRematch(l, value) ==
    LET buffer == l.buffer \o value
        m == Match(buffer)
        matched == m # None
        foundCount == IF matched THEN Some(ParseInt(m[1].group)) ELSE l.foundCount
        textStart == IF matched THEN Some(m[1].index + m[1].length) ELSE l.textStart
        cleanText == IF textStart # None THEN SliceFrom(buffer, textStart[1]) ELSE <<>>
    IN  [locals |-> [l EXCEPT !.buffer = buffer, !.foundCount = foundCount,
                              !.textStart = textStart],
         updates |->
            (IF matched THEN <<Update("found", [foundCount |-> foundCount])>> ELSE <<>>)
            \o (IF textStart # None /\ Trim(cleanText) # <<>>
                THEN <<Update("streaming", [completion |-> cleanText])>> ELSE <<>>)]

\* a loop body that looks for the marker in the chunk it has just read, not in the buffer
LoopBodyChunkOnly(l, value) ==
    LET buffer == l.buffer \o value
        m == IF l.foundCount = None THEN Match(value) ELSE None
        matched == m # None
        foundCount == IF matched THEN Some(ParseInt(m[1].group)) ELSE l.foundCount
        textStart == IF matched THEN Some(Len(l.buffer) + m[1].index + m[1].length)
                     ELSE l.textStart
        cleanText == IF textStart # None THEN SliceFrom(buffer, textStart[1]) ELSE <<>>
    IN  [locals |-> [l EXCEPT !.buffer = buffer, !.foundCount = foundCount,
                              !.textStart = textStart],
         updates |->
            (IF matched THEN <<Update("found", [foundCount |-> foundCount])>> ELSE <<>>)
            \o (IF textStart # None /\ Trim(cleanText) # <<>>
                THEN <<Update("streaming", [completion |-> cleanText])>> ELSE <<>>)]

\* one iteration of the read loop on the chunk value: the locals afterwards and the
\* setSearchState calls it makes, in order
LoopBody(l, value) ==
    LET buffer == l.buffer \o value
        m == IF l.foundCount = None THEN Match(buffer) ELSE None
        matched == m # None
        foundCount == IF matched THEN Some(ParseInt(m[1].group)) ELSE l.foundCount
        textStart == IF matched THEN Some(m[1].index + m[1].length) ELSE l.textStart
        cleanText == IF textStart # None THEN SliceFrom(buffer, textStart[1]) ELSE <<>>
    IN  [locals |-> [l EXCEPT !.buffer = buffer, !.foundCount = foundCount,
                              !.textStart = textStart],
         updates |->
            (IF matched THEN <<Update("found", [foundCount |-> foundCount])>> ELSE <<>>)
            \o (IF textStart # None /\ Trim(cleanText) # <<>>
                THEN <<Update("streaming", [completion |-> cleanText])>> ELSE <<>>)]

\* the state after the queued updaters have run
RECURSIVE Apply(_, _)
Apply(state, updates) ==
    IF updates = <<>> THEN state
    ELSE Apply([f \in DOMAIN state |->
                   IF f = "status" THEN Head(updates).status
                   ELSE IF f \in DOMAIN Head(updates).fields THEN Head(updates).fields[f]
                   ELSE state[f]],
               Tail(updates))

Statuses(updates) == [i \in 1..Len(updates) |-> updates[i].status]

InitialSearchState == [status |-> "idle", foundCount |-> None, completion |-> <<>>, error |-> None]

NoLocals == [pc |-> "idle", buffer |-> <<>>, foundCount |-> None, textStart |-> None]

\* the component is mounted and nothing has been submitted
ClientIdle ==
    /\ searchState = InitialSearchState
    /\ submit = NoLocals
    /\ statusTrace = <<"idle">>
    /\ earlier = NoLocals
    /\ earlierWire = NoResponse

\* setSearchState: the updates take effect and the history records their statuses
SetSearchState(updates) ==
    /\ searchState' = Apply(searchState, updates)
    /\ statusTrace' = statusTrace \o Statuses(updates)

strHTTP == <<72, 84, 84, 80, 32>>
strNetwork == <<110, 101, 116>>

\* handleSubmit up to await fetch
HandleSubmit ==
    /\ submit.pc = "idle"
    /\ SetSearchState(<<Update("searching", [foundCount |-> None, completion |-> <<>>,
                                              error |-> None])>>)
    /\ submit' = [submit EXCEPT !.pc = "fetching"]
    /\ UNCHANGED <<wire, earlier, earlierWire>>

\* fetch resolves or rejects; a response that is not ok is thrown as an Error
FetchSettles ==
    /\ submit.pc = "fetching"
    /\ IF wire.kind = "unreachable"
       THEN /\ SetSearchState(<<Update("error", [error |-> Some(strNetwork)])>>)
            /\ submit' = [submit EXCEPT !.pc = "returned"]
       ELSE IF wire.kind = "refused"
       THEN /\ SetSearchState(<<Update("error",
                    [error |-> Some(Coalesce(wire.error, strHTTP \o ToDecimal(wire.status)))])>>)
            /\ submit' = [submit EXCEPT !.pc = "returned"]
       ELSE /\ submit' = [submit EXCEPT !.pc = "reading"]
            /\ UNCHANGED <<searchState, statusTrace>>
    /\ UNCHANGED <<wire, earlier, earlierWire>>

\* reader.read() yields a chunk: one iteration of the loop
ReadChunk ==
    /\ submit.pc = "reading"
    /\ wire.chunks # <<>>
    /\ LET step == LoopBody(submit, Head(wire.chunks)) IN
       /\ submit' = step.locals
       /\ SetSearchState(step.updates)
    /\ wire' = [wire EXCEPT !.chunks = Tail(@)]
    /\ UNCHANGED <<earlier, earlierWire>>

\* reader.read() yields done: the loop ends
ReadDone ==
    /\ submit.pc = "reading"
    /\ wire.chunks = <<>>
    /\ wire.ending = "close"
    /\ SetSearchState(<<Update("done", NoFields)>>)
    /\ submit' = [submit EXCEPT !.pc = "returned"]
    /\ UNCHANGED <<wire, earlier, earlierWire>>

\* reader.read() rejects: the stream was errored or the connection broke; chunks that
\* were not read yet are lost
ReadFails ==
    /\ submit.pc = "reading"
    /\ wire.ending = "error"
    /\ SetSearchState(<<Update("error", [error |-> Some(strNetwork)])>>)
    /\ submit' = [submit EXCEPT !.pc = "returned"]
    /\ wire' = [wire EXCEPT !.chunks = <<>>]
    /\ UNCHANGED <<earlier, earlierWire>>

\* the responses the second of two overlapping submissions may get: those that arrive in at
\* most one chunk
LaterWires == {w \in Wires : Len(w.chunks) <= 1}

\* the user goes Back from the results step and submits again while the first handleSubmit
\* is still awaiting fetch or reading: a second handleSubmit starts, the first keeps running
SubmitAgain ==
    /\ submit.pc \in {"fetching", "reading"}
    /\ earlier = NoLocals
    /\ earlier' = submit
    /\ earlierWire' = wire
    /\ SetSearchState(<<Update("searching", [foundCount |-> None, completion |-> <<>>,
                                              error |-> None])>>)
    /\ submit' = [NoLocals EXCEPT !.pc = "fetching"]
    /\ wire' \in LaterWires

\* the steps of the earlier handleSubmit: the same code, on its own locals and response
EarlierFetchSettles ==
    /\ earlier.pc = "fetching"
    /\ IF earlierWire.kind = "unreachable"
       THEN /\ SetSearchState(<<Update("error", [error |-> Some(strNetwork)])>>)
            /\ earlier' = [earlier EXCEPT !.pc = "returned"]
       ELSE IF earlierWire.kind = "refused"
       THEN /\ SetSearchState(<<Update("error",
                    [error |-> Some(Coalesce(earlierWire.error,
                                             strHTTP \o ToDecimal(earlierWire.status)))])>>)
            /\ earlier' = [earlier EXCEPT !.pc = "returned"]
       ELSE /\ earlier' = [earlier EXCEPT !.pc = "reading"]
            /\ UNCHANGED <<searchState, statusTrace>>
    /\ UNCHANGED <<submit, wire, earlierWire>>

EarlierReadChunk ==
    /\ earlier.pc = "reading"
    /\ earlierWire.chunks # <<>>
    /\ LET step == LoopBody(earlier, Head(earlierWire.chunks)) IN
       /\ earlier' = step.locals
       /\ SetSearchState(step.updates)
    /\ earlierWire' = [earlierWire EXCEPT !.chunks = Tail(@)]
    /\ UNCHANGED <<submit, wire>>

EarlierReadDone ==
    /\ earlier.pc = "reading"
    /\ earlierWire.chunks = <<>>
    /\ earlierWire.ending = "close"
    /\ SetSearchState(<<Update("done", NoFields)>>)
    /\ earlier' = [earlier EXCEPT !.pc = "returned"]
    /\ UNCHANGED <<submit, wire, earlierWire>>

EarlierReadFails ==
    /\ earlier.pc = "reading"
    /\ earlierWire.ending = "error"
    /\ SetSearchState(<<Update("error", [error |-> Some(strNetwork)])>>)
    /\ earlier' = [earlier EXCEPT !.pc = "returned"]
    /\ earlierWire' = [earlierWire EXCEPT !.chunks = <<>>]
    /\ UNCHANGED <<submit, wire>>

----------------------------------------------------------------------------
(* The handler *)

\* process.env: each credential is set or not
Environments == [OPENROUTER_API_KEY : BOOLEAN, TMDB_API_KEY : BOOLEAN]

\* a request carries JSON text that parses to one of the bodies, or text that does not parse
Requests == [json : Bodies] \cup [text : {<<123>>}]

\* await c.req.json(): the parsed body, or a throw
ReqJson(r) ==
    IF "json" \in DOMAIN r THEN [threw |-> FALSE, value |-> r.json]
                           ELSE [threw |-> TRUE, value |-> AbsentBody]

\* c.json({ error }, status)
JsonError(message, status) ==
    [status |-> status, contentType |-> "application/json", error |-> message]

\* new Response(readable, { headers }): status 200, the body is the stream
StreamResponse ==
    [status |-> 200, contentType |-> "text/plain; charset=utf-8", error |-> ""]

\* the checks without the TMDB credential test
PreStreamFailureNoTmdbCheck(e, r) ==
    IF ~e.OPENROUTER_API_KEY THEN Some(JsonError("OpenRouter not configured", 500))
    ELSE IF ReqJson(r).threw THEN Some(JsonError("Invalid JSON", 400))
    ELSE None

\* the checks before the stream is built, in program order: None when all pass
PreStreamFailure(e, r) ==
    IF ~e.OPENROUTER_API_KEY THEN Some(JsonError("OpenRouter not configured", 500))
    ELSE IF ~e.TMDB_API_KEY THEN Some(JsonError("TMDB not configured", 500))
    ELSE IF ReqJson(r).threw THEN Some(JsonError("Invalid JSON", 400))
    ELSE None

\* no request has reached the route handler
HandlerIdle ==
    /\ request = None
    /\ response = None
    /\ pc = "idle"
    /\ body = AbsentBody
    /\ log = <<>>
    /\ filterResult = FulfilledNull
    /\ discoverFetches = <<>>
    /\ descSearches = <<>>
    /\ pool = <<>>
    /\ descCount = 0
    /\ poolSlice = <<>>
    /\ picks = <<>>
    /\ pickedItems = <<>>
    /\ textStream = <<>>
    /\ cancelled = FALSE

\* the module has just been loaded: empty Map, the sweep timer armed
LimiterStarted ==
    /\ rateMap = [k \in ClientKeys |-> None]
    /\ now = 0
    /\ ticks = 0
    /\ nextSweep = SWEEP_INTERVAL_MS
    /\ served = None
    /\ windowOf = [k \in ClientKeys |-> None]
    /\ unswept = [k \in ClientKeys |-> None]

Init ==
    /\ env \in Environments
    /\ world \in Worlds
    /\ HandlerIdle
    /\ LimiterStarted
    /\ ClientIdle
    /\ wire = NoResponse

\* the settled results of a list of fetches of which those at the positions in failed reject
SettledWith(w, calls, failed) ==
    [i \in 1..Len(calls) |->
        IF i \in failed THEN Rejected ELSE Fulfilled(TmdbAnswer(w, calls[i].arg))]

\* a catch block that reports the error in the body and ends the stream
FailWithPayload ==
    /\ log' = log \o <<Enqueue("error", <<91, 69, 82, 82, 79, 82, 93>>), Close>>
    /\ pc' = "closed"

\* a catch block followed by a finally that closes the stream
FailThenCloses ==
    /\ log' = log \o <<Error, Close>>
    /\ pc' = "errored"

\* the catch block: controller.error(err); it also answers the TypeError that enqueue and
\* close throw once the stream has been cancelled
Fail ==
    /\ log' = Append(log, Error)
    /\ pc' = "errored"

\* from the merge to the await of the selection call, for the settled results d and s
BuildPool(d, s) ==
    LET req == Destructure(body)
        priorityDesc == PriorityDesc(DescriptionPool(s), DiscoverIds(d))
        merged == Merge(priorityDesc, d)
    IN  \E rnd \in RandomStreams :
          LET shuffled == TailShuffle(merged.pool, merged.descCount, rnd)
              freshPool == FreshPool(shuffled, SeenTitles(req.liked, req.disliked))
              slice == Truncate(freshPool)
          IN  /\ pool' = shuffled
              /\ descCount' = merged.descCount
              /\ poolSlice' = slice
              /\ IF cancelled
                 THEN Fail
                 ELSE /\ log' = log \o
                              << Enqueue("found", FoundMarker(FoundCount(shuffled, slice))),
                                 [ev |-> "generateObject",
                                  arg |-> [purpose |-> "select",
                                           wants |-> Wants(req),
                                           prefsParts |-> PrefsParts(req),
                                           feedbackParts |-> FeedbackParts(req),
                                           numberedList |-> NumberedList(slice)]] >>
                      /\ pc' = "selecting"

\* POST /api/recommend with a missing credential or an unparseable body: the handler
\* returns a JSON error before the ReadableStream is constructed
RecommendRefused(r) ==
    /\ UNCHANGED <<rateVars, clientVars>>
    /\ pc = "idle"
    /\ PreStreamFailure(env, r) # None
    /\ request' = Some(r)
    /\ response' = PreStreamFailure(env, r)
    /\ pc' = "returned"
    /\ UNCHANGED <<env, body, world, log, filterResult, discoverFetches, descSearches, pool,
                   descCount, poolSlice, picks, pickedItems, textStream, cancelled>>

\* POST /api/recommend up to the first await: the stream starts, phase 1 is issued, and the
\* handler returns the streaming Response
Recommend(r) ==
    /\ UNCHANGED <<rateVars, clientVars>>
    /\ pc = "idle"
    /\ PreStreamFailure(env, r) = None
    /\ request' = Some(r)
    /\ body' = ReqJson(r).value
    /\ log' = log \o StartEvents(Destructure(ReqJson(r).value))
    /\ response' = Some(StreamResponse)
    /\ pc' = "phase1"
    /\ UNCHANGED <<env, world, filterResult, discoverFetches, descSearches, pool, descCount,
                   poolSlice, picks, pickedItems, textStream, cancelled>>

\* the extraction call and the five discover fetches have settled
Phase1Settled ==
    /\ UNCHANGED outsideStart
    /\ pc = "phase1"
    /\ LET req == Destructure(body) IN
       \E f \in FilterOutcomes(req), failed \in SUBSET (1..Len(DiscoverCalls(req))) :
         LET d == SettledWith(world, DiscoverCalls(req), failed)
             awaited == AllSettled(<<f>> \o d)
         IN
         /\ filterResult' = f
         /\ discoverFetches' = d
         /\ IF awaited.threw
            THEN /\ Fail
                 /\ UNCHANGED <<descSearches, pool, descCount, poolSlice>>
            ELSE IF f.status = "fulfilled" /\ f.value # None
            THEN /\ log' = log \o SearchCalls(req, f.value[1].object)
                 /\ pc' = "phase2"
                 /\ UNCHANGED <<descSearches, pool, descCount, poolSlice>>
            ELSE /\ BuildPool(d, <<>>)
                 /\ UNCHANGED descSearches
    /\ UNCHANGED <<body, world, picks, pickedItems, textStream>>

\* the search fetches have settled
Phase2Settled ==
    /\ UNCHANGED outsideStart
    /\ pc = "phase2"
    /\ LET req == Destructure(body) IN
       \E failed \in SUBSET (1..Len(SearchCalls(req, filterResult.value[1].object))) :
         LET s == SettledWith(world, SearchCalls(req, filterResult.value[1].object), failed)
             awaited == AllSettled(s)
         IN
         /\ descSearches' = s
         /\ IF awaited.threw
            THEN /\ Fail
                 /\ UNCHANGED <<pool, descCount, poolSlice>>
            ELSE BuildPool(discoverFetches, s)
    /\ UNCHANGED <<body, world, filterResult, discoverFetches, picks, pickedItems, textStream>>

\* the selection call returns an object that passes the schema
SelectionReturns ==
    /\ UNCHANGED outsideStart
    /\ pc = "selecting"
    /\ \E ps \in {o \in SelectionOutputs : SelectionSchema(o)}, ts \in NarrationOutputs :
         LET items == ValidatePicks(ps, poolSlice) IN
         /\ picks' = ps
         /\ pickedItems' = items
         /\ textStream' = ts
         /\ log' = Append(log, [ev |-> "streamText", arg |-> [prompt |-> PickedText(items)]])
         /\ pc' = "narrating"
    /\ UNCHANGED <<body, world, filterResult, discoverFetches, descSearches, pool,
                   descCount, poolSlice>>

\* a handler that answers a failed selection call by issuing it again
SelectionRetries ==
    /\ UNCHANGED outsideStart
    /\ pc = "selecting"
    /\ log' = Append(log, log[Len(log)])
    /\ UNCHANGED <<pc, body, world, filterResult, discoverFetches, descSearches, pool,
                   descCount, poolSlice, picks, pickedItems, textStream>>

\* the selection call throws: transport failure or an object the schema rejects
SelectionFails ==
    /\ UNCHANGED outsideStart
    /\ pc = "selecting"
    /\ Fail
    /\ UNCHANGED <<body, world, filterResult, discoverFetches, descSearches, pool,
                   descCount, poolSlice, picks, pickedItems, textStream>>

\* a loop that gathers the chunks and enqueues them as one
NarrationChunkBatched ==
    /\ UNCHANGED outsideStart
    /\ pc = "narrating"
    /\ textStream # <<>>
    /\ log' = Append(log, Enqueue("chunk", Flatten(textStream)))
    /\ textStream' = <<>>
    /\ UNCHANGED <<pc, body, world, filterResult, discoverFetches, descSearches, pool,
                   descCount, poolSlice, picks, pickedItems>>

\* one iteration of for await (const chunk of result.textStream)
NarrationChunk ==
    /\ UNCHANGED outsideStart
    /\ pc = "narrating"
    /\ textStream # <<>>
    /\ textStream' = Tail(textStream)
    /\ IF cancelled
       THEN Fail
       ELSE /\ log' = Append(log, Enqueue("chunk", Head(textStream)))
            /\ UNCHANGED pc
    /\ UNCHANGED <<body, world, filterResult, discoverFetches, descSearches, pool,
                   descCount, poolSlice, picks, pickedItems>>

\* the text stream ends: controller.close()
NarrationEnds ==
    /\ UNCHANGED outsideStart
    /\ pc = "narrating"
    /\ textStream = <<>>
    /\ IF cancelled
       THEN Fail
       ELSE /\ log' = Append(log, Close)
            /\ pc' = "closed"
    /\ UNCHANGED <<body, world, filterResult, discoverFetches, descSearches, pool,
                   descCount, poolSlice, picks, pickedItems, textStream>>

\* a start function without the catch block: the exception is lost and the stream is left open
NarrationFailsUnreported ==
    /\ UNCHANGED outsideStart
    /\ pc = "narrating"
    /\ pc' = "abandoned"
    /\ UNCHANGED <<log, body, world, filterResult, discoverFetches, descSearches, pool,
                   descCount, poolSlice, picks, pickedItems, textStream>>

\* the text stream throws while it is read
NarrationFails ==
    /\ UNCHANGED outsideStart
    /\ pc = "narrating"
    /\ Fail
    /\ UNCHANGED <<body, world, filterResult, discoverFetches, descSearches, pool,
                   descCount, poolSlice, picks, pickedItems, textStream>>

\* the client disconnects while the response is streaming: the transport cancels the
\* stream; the stream was constructed without a cancel callback, so nothing else happens
Disconnect ==
    /\ pc \in {"phase1", "phase2", "selecting", "narrating"}
    /\ ~cancelled
    /\ cancelled' = TRUE
    /\ UNCHANGED <<env, request, response, rateVars, clientVars>>
    /\ UNCHANGED <<pc, body, world, log, filterResult, discoverFetches, descSearches, pool,
                   descCount, poolSlice, picks, pickedItems, textStream>>

Next ==
    \/ \E r \in Requests : RecommendRefused(r)
    \/ \E r \in Requests : Recommend(r)
    \/ Phase1Settled
    \/ Phase2Settled
    \/ SelectionReturns
    \/ SelectionFails
    \/ NarrationChunk
    \/ NarrationEnds
    \/ NarrationFails

Spec == Init /\ [][Next]_vars

\* the steps of the curation stage: the selection call returns or throws, each read of
\* the text stream yields a chunk, its end or a failure
CurationSteps ==
    \/ SelectionReturns
    \/ SelectionFails
    \/ NarrationChunk
    \/ NarrationEnds
    \/ NarrationFails

\* the handler is suspended in one of the two awaits of Promise.allSettled
AwaitingFetches == pc = "phase1" \/ pc = "phase2"

\* the pipeline against the small catalog
InitLive == Init /\ world = SmallWorld

\* the pipeline when every call eventually returns or fails and the text stream is finite:
\* Promise.allSettled resolves once its promises have settled, so the handler does not stay
\* in an await of the fetches for ever, and the curation steps are taken when they can be
SpecLive ==
    /\ InitLive
    /\ [][Next]_vars
    /\ WF_vars(CurationSteps)
    /\ []<>(~AwaitingFetches)

\* the pipeline with a client that may disconnect, against the small catalog
NextCancel ==
    \/ Next
    \/ Disconnect

SpecCancel == InitLive /\ [][NextCancel]_vars

\* the limiter on its own: requests to /api/*, the clock and the sweep timer
serverVars == <<env, request, response, pc, body, world, log, filterResult, discoverFetches,
                descSearches, pool, descCount, poolSlice, picks, pickedItems, textStream,
                cancelled>>

InitRate ==
    /\ env = [OPENROUTER_API_KEY |-> TRUE, TMDB_API_KEY |-> TRUE]
    /\ world = SmallWorld
    /\ HandlerIdle
    /\ LimiterStarted
    /\ ClientIdle
    /\ wire = NoResponse

NextRate ==
    \/ \E h \in ForwardedFor : ApiRequest(h) /\ UNCHANGED <<serverVars, clientVars>>
    \/ \E d \in TimeSteps : Tick(d) /\ UNCHANGED <<serverVars, clientVars>>
    \/ Sweep /\ UNCHANGED <<serverVars, clientVars>>

SpecRate == InitRate /\ [][NextRate]_vars

\* the client reading one response
InitClient ==
    /\ env = [OPENROUTER_API_KEY |-> TRUE, TMDB_API_KEY |-> TRUE]
    /\ world = SmallWorld
    /\ HandlerIdle
    /\ LimiterStarted
    /\ ClientIdle
    /\ wire \in Wires

NextClient ==
    \/ HandleSubmit /\ UNCHANGED <<serverVars, rateVars>>
    \/ FetchSettles /\ UNCHANGED <<serverVars, rateVars>>
    \/ ReadChunk /\ UNCHANGED <<serverVars, rateVars>>
    \/ ReadDone /\ UNCHANGED <<serverVars, rateVars>>
    \/ ReadFails /\ UNCHANGED <<serverVars, rateVars>>

SpecClient == InitClient /\ [][NextClient]_vars

\* the client when the user may submit a second time before the first response has ended
NextOverlap ==
    \/ NextClient
    \/ SubmitAgain /\ UNCHANGED <<serverVars, rateVars>>
    \/ EarlierFetchSettles /\ UNCHANGED <<serverVars, rateVars>>
    \/ EarlierReadChunk /\ UNCHANGED <<serverVars, rateVars>>
    \/ EarlierReadDone /\ UNCHANGED <<serverVars, rateVars>>
    \/ EarlierReadFails /\ UNCHANGED <<serverVars, rateVars>>

SpecOverlap == InitClient /\ [][NextOverlap]_vars

----------------------------------------------------------------------------
(* Vocabulary of the properties *)

\* the subsequence of s at the positions K, in increasing order
SubseqAt(s, K) ==
    [m \in 1..Cardinality(K) |-> s[CHOOSE k \in K : Cardinality({x \in K : x <= k}) = m]]

IsEnqueue(e, at) == e.ev = "enqueue" /\ e.arg.at = at
IsCall(e) == e.ev \in {"tmdbFetch", "generateObject", "streamText"}
IsDiscover(e) == e.ev = "tmdbFetch" /\ e.arg.path \in {"/discover/movie", "/discover/tv"}

\* positions of the log where the found marker was enqueued
FoundPositions == {i \in 1..Len(log) : IsEnqueue(log[i], "found")}

\* the candidate pool builder has finished
Built == FoundPositions # {}

\* the candidate pool builder has just finished: the handler awaits the selection call
JustBuilt == pc = "selecting"

\* the items the searches delivered that the builder takes as priority items
PriorityItems == PriorityDesc(DescriptionPool(descSearches), DiscoverIds(discoverFetches))

\* all discover results of the fetches that succeeded, in query order
DiscoverItems == Flatten([i \in 1..Len(discoverFetches) |-> Contribution(discoverFetches[i])])

\* identifiers of a list of items
IdsOf(items) == {items[i].id[1] : i \in {k \in 1..Len(items) : items[k].id # None}}

\* the first-occurrence positions of identifiers in a list of items
FirstPositions(items) ==
    {k \in 1..Len(items) : /\ items[k].id # None
                           /\ \A j \in 1..(k - 1) : items[j].id # items[k].id}

----------------------------------------------------------------------------
(* C1: the validated picks are exactly the returned picks with 0 <= index <     *)
(* length of the truncated pool, in the model's order, each mapped to the pool  *)
(* item at that index; nothing is added when fewer than 3 remain, and only      *)
(* titles of the truncated pool reach the narration prompt.                     *)

ValidPositions == {k \in 1..Len(picks) : picks[k].index >= 0 /\ picks[k].index < Len(poolSlice)}

NarrationPrompts == {log[i].arg.prompt : i \in {k \in 1..Len(log) : log[k].ev = "streamText"}}

C1_IndexSelectionSound ==
    picks # <<>> =>
        LET kept == SubseqAt(picks, ValidPositions) IN
        /\ Len(pickedItems) = Cardinality(ValidPositions)
        /\ \A m \in 1..Len(pickedItems) :
              LET r == poolSlice[kept[m].index + 1] IN
              /\ pickedItems[m].vibe = kept[m].vibe
              /\ pickedItems[m].title =
                    (IF r.title # None THEN r.title[1]
                     ELSE IF r.name # None THEN r.name[1] ELSE strUnknown)
        /\ NarrationPrompts = {PickedText(pickedItems)}

C1_Witness ==
    /\ pc = "narrating"
    /\ Len(poolSlice) >= 3
    /\ Len(pickedItems) \in {1, 2}
    /\ Len(picks) > Len(pickedItems)

----------------------------------------------------------------------------
(* C2: the pool holds each catalog identifier at most once, and the record   *)
(* kept for an identifier is the first one met when the priority items are    *)
(* loaded first and the discover results after them in query order.           *)

LoadOrder == PriorityItems \o DiscoverItems

C2_Deduplicated ==
    JustBuilt =>
        /\ \A i \in 1..Len(pool) : pool[i].id # None
        /\ \A i, j \in 1..Len(pool) : i # j => pool[i].id # pool[j].id
        /\ IdsOf(pool) = IdsOf(LoadOrder)
        /\ \A i \in 1..Len(pool) :
              \E k \in FirstPositions(LoadOrder) : pool[i] = LoadOrder[k]

\* an identifier met in a search result and again in discover results, the search record kept
C2_Witness ==
    /\ JustBuilt
    /\ \E i \in 1..Len(pool) : pool[i].id = Some(2) /\ pool[i].overview = Some(strFromSearch)
    /\ \E k \in 1..Len(DiscoverItems) : DiscoverItems[k].id = Some(2)
    /\ Len(LoadOrder) > Len(pool)

----------------------------------------------------------------------------
(* C3: whatever the shuffle draws, every priority item is at a lower position *)
(* than every general item, the priority items keep their original relative   *)
(* order, and the shuffle permutes only the positions from the prefix length  *)
(* on: the pool has the same items before and after.                          *)

PriorityIds == IdsOf(PriorityItems)

Unshuffled == Merge(PriorityItems, discoverFetches).pool

C3_PriorityOrdering ==
    JustBuilt =>
        LET prio == {i \in 1..Len(pool) : pool[i].id[1] \in PriorityIds} IN
        /\ \A i \in prio, j \in (1..Len(pool)) \ prio : i < j
        /\ SubseqAt(pool, prio) = SubseqAt(PriorityItems, FirstPositions(PriorityItems))
        /\ descCount = Cardinality(prio)
        /\ Len(pool) = Len(Unshuffled)
        /\ Range(pool) = Range(Unshuffled)
        /\ \A i \in 1..descCount : pool[i] = Unshuffled[i]

\* a priority prefix followed by a tail the shuffle has really permuted
C3_Witness ==
    /\ JustBuilt
    /\ descCount >= 2
    /\ Len(pool) >= descCount + 2
    /\ pool # Unshuffled

----------------------------------------------------------------------------
(* C4: a search-derived item is in the pool only if its identifier also      *)
(* appears in the discover results of the same request; when no search-derived *)
(* identifier appears in the discover results the priority prefix is empty    *)
(* and the pool consists of discover results only.                            *)

DiscoverIdSet == IdsOf(DiscoverItems)

SearchIdSet == IdsOf(DescriptionPool(descSearches))

C4_SearchItemsValidated ==
    JustBuilt =>
        /\ \A i \in 1..Len(pool) : pool[i].id[1] \in DiscoverIdSet
        /\ (SearchIdSet \cap DiscoverIdSet = {}) =>
              /\ descCount = 0
              /\ Range(pool) \subseteq Range(DiscoverItems)

----------------------------------------------------------------------------
(* C5: [SEARCHING] is the first data enqueued and precedes every catalog      *)
(* query and model call; [FOUND:N] is enqueued after it; every narration      *)
(* chunk is enqueued after [FOUND:N].                                         *)

C5_PhaseOrdering ==
    /\ log # <<>> => log[1] = Enqueue("searching", SearchingMarker)
    /\ \A i \in 1..Len(log) :
          /\ (IsCall(log[i]) \/ log[i].ev = "enqueue") =>
                \E j \in 1..i : IsEnqueue(log[j], "searching") /\ (IsCall(log[i]) => j < i)
          /\ IsEnqueue(log[i], "found") =>
                \E j \in 1..(i - 1) : IsEnqueue(log[j], "searching")
          /\ IsEnqueue(log[i], "chunk") =>
                \E j \in 1..(i - 1) : IsEnqueue(log[j], "found")

C5_Witness ==
    /\ pc = "closed"
    /\ \E i \in 1..Len(log) : IsEnqueue(log[i], "chunk")
    /\ \E i \in 1..Len(log) : log[i].ev = "generateObject" /\ log[i].arg.purpose = "extract"

----------------------------------------------------------------------------
(* C6: N of [FOUND:N] is the size of the untruncated pool, not of the        *)
(* truncated list of at most 30 candidates; without description and without   *)
(* liked or disliked titles it is the number of distinct identifiers in the   *)
(* results of the discover queries that succeeded.                            *)

\* the value of a string of decimal digits
RECURSIVE DecimalValue(_)
DecimalValue(ds) ==
    IF ds = <<>> THEN 0
    ELSE 10 * DecimalValue(SubSeq(ds, 1, Len(ds) - 1)) + (ds[Len(ds)] - 48)

FoundData == {log[i].arg.data : i \in FoundPositions}

IsFoundMarker(d) ==
    /\ Len(d) >= 10
    /\ SubSeq(d, 1, 7) = <<91, 70, 79, 85, 78, 68, 58>>
    /\ SubSeq(d, Len(d) - 1, Len(d)) = <<93, 10>>
    /\ \A k \in 8..(Len(d) - 2) : d[k] >= 48 /\ d[k] <= 57

FoundN(d) == DecimalValue(SubSeq(d, 8, Len(d) - 2))

----------------------------------------------------------------------------
(* C7: no item whose title (movie) or name (TV) equals, ignoring case, an    *)
(* entry of liked or disliked is in the truncated pool given to curation.     *)

ToUpper(c) == IF c >= 97 /\ c <= 122 THEN c - 32 ELSE c

EqualsIgnoreCase(a, b) ==
    /\ Len(a) = Len(b)
    /\ \A k \in 1..Len(a) : ToUpper(a[k]) = ToUpper(b[k])

ShownTitle(r) == IF Destructure(body).mediaType = "movie" THEN r.title ELSE r.name

SeenEntries == Range(Destructure(body).liked) \cup Range(Destructure(body).disliked)

IsSeen(r) ==
    /\ ShownTitle(r) # None
    /\ \E t \in SeenEntries : EqualsIgnoreCase(ShownTitle(r)[1], t)

C7_SeenExcluded ==
    JustBuilt => \A i \in 1..Len(poolSlice) : ~IsSeen(poolSlice[i])

\* the pool holds a seen title in another case than the request gave it
C7_Witness ==
    /\ JustBuilt
    /\ \E i \in 1..Len(pool) : IsSeen(pool[i]) /\ ShownTitle(pool[i])[1] \notin SeenEntries
    /\ poolSlice # <<>>

----------------------------------------------------------------------------
(* C8: every discover query that carries watch_region also carries            *)
(* with_watch_providers (provider list non-empty) or                          *)
(* with_watch_monetization_types (provider list empty), the rating-sorted     *)
(* queries included.                                                          *)

C8_RegionQualified ==
    \A i \in 1..Len(log) :
        (IsDiscover(log[i]) /\ "watch_region" \in DOMAIN log[i].arg.params) =>
            IF Len(Destructure(body).providerIds) > 0
            THEN "with_watch_providers" \in DOMAIN log[i].arg.params
            ELSE "with_watch_monetization_types" \in DOMAIN log[i].arg.params

C8_Witness ==
    \E i, j \in 1..Len(log) :
        /\ IsDiscover(log[i]) /\ IsDiscover(log[j])
        /\ log[i].arg.params["sort_by"] = "vote_average.desc"
        /\ log[i].arg.params["vote_count.gte"] = "150"
        /\ log[j].arg.params["vote_count.gte"] = "40"
        /\ "watch_region" \in DOMAIN log[i].arg.params
        /\ "with_watch_monetization_types" \in DOMAIN log[i].arg.params
        /\ "with_watch_providers" \notin DOMAIN log[i].arg.params

----------------------------------------------------------------------------
(* C9: a failing discover query, search query or extraction call is an empty  *)
(* contribution: the pool is the one built from the results of the operations *)
(* that succeeded, no failure leaves the builder, and the request reaches the *)
(* [FOUND:N] marker without the stream being errored.                         *)

IsFulfilled(res) == res.status = "fulfilled"

FromSucceeded ==
    LET d == SelectSeq(discoverFetches, IsFulfilled)
        s == SelectSeq(descSearches, IsFulfilled)
    IN  Merge(PriorityDesc(DescriptionPool(s), DiscoverIds(d)), d)

C9_FailureIsolation ==
    /\ pc = "errored" => Built
    /\ \A i \in 1..Len(log) :
          log[i].ev = "error" => \E j \in 1..(i - 1) : IsEnqueue(log[j], "found")
    /\ pc \in {"selecting", "narrating", "closed"} => Built /\ log[Len(log)].ev # "error"
    /\ JustBuilt =>
          /\ descCount = FromSucceeded.descCount
          /\ SubSeq(pool, 1, descCount) = SubSeq(FromSucceeded.pool, 1, descCount)
          /\ Len(pool) = Len(FromSucceeded.pool)
          /\ Range(pool) = Range(FromSucceeded.pool)
          /\ filterResult.status = "rejected" =>
                /\ descSearches = <<>>
                /\ \A i \in 1..Len(log) : ~(log[i].ev = "tmdbFetch" /\ ~IsDiscover(log[i]))

C9_Witness ==
    /\ JustBuilt
    /\ \E i \in 1..Len(discoverFetches) : discoverFetches[i].status = "rejected"
    /\ \E i \in 1..Len(descSearches) : descSearches[i].status = "rejected"
    /\ \E i \in 1..Len(descSearches) : descSearches[i].status = "fulfilled"
    /\ descCount > 0
    /\ Len(pool) > descCount

----------------------------------------------------------------------------
(* C10: if all discover queries of a request fail, the candidate pool is      *)
(* empty and the found count is 0, whatever the extraction call and the       *)
(* search queries return.                                                     *)

AllDiscoverFailed ==
    /\ discoverFetches # <<>>
    /\ \A i \in 1..Len(discoverFetches) : discoverFetches[i].status = "rejected"

C10_EmptyWhenDiscoverFails ==
    (JustBuilt /\ AllDiscoverFailed) =>
        /\ pool = <<>>
        /\ FoundData = {FoundMarker(0)}

----------------------------------------------------------------------------
(* C11: with an empty pool the handler does not abort: it enqueues the found  *)
(* marker, issues the selection call with an empty candidate list, validates  *)
(* zero picks whatever indices come back, issues the narration call, and      *)
(* closes the stream unless one of the two model calls fails.                 *)

IsSelectCall(e) == e.ev = "generateObject" /\ e.arg.purpose = "select"

\* the event after which the stream was errored
BeforeError == log[Len(log) - 1]

C11_EmptyPoolProceeds ==
    (Built /\ pool = <<>>) =>
        /\ pc \in {"selecting", "narrating", "closed", "errored"}
        /\ FoundData = {FoundMarker(0)}
        /\ \A i \in FoundPositions :
              IsSelectCall(log[i + 1]) /\ log[i + 1].arg.numberedList = <<>>
        /\ picks # <<>> => (pickedItems = <<>> /\ NarrationPrompts = {<<>>})
        /\ pc = "narrating" => NarrationPrompts # {}
        /\ pc = "closed" => log[Len(log)] = Close
        /\ pc = "errored" =>
              \/ IsSelectCall(BeforeError)
              \/ BeforeError.ev = "streamText"
              \/ IsEnqueue(BeforeError, "chunk")

\* all discover queries returned nothing, picks came back, and the stream closed
C11_Witness ==
    /\ pc = "closed"
    /\ pool = <<>>
    /\ Len(picks) >= MinPicks
    /\ pickedItems = <<>>
    /\ \E i \in 1..Len(discoverFetches) : discoverFetches[i].status = "rejected"

----------------------------------------------------------------------------
(* C12: a failure of the selection call or of the narration call, at any      *)
(* point of its chunk stream, puts the response stream in the errored state:  *)
(* nothing is enqueued after the failure, the stream is not closed            *)
(* afterwards, and no error payload is appended to the body.                  *)

CurationFailureStep ==
    /\ pc \in {"selecting", "narrating"}
    /\ pc' \notin {"selecting", "narrating"}
    /\ ~(pc = "narrating" /\ textStream = <<>> /\ pc' = "closed")

C12_CurationFailureErrors ==
    [][ /\ CurationFailureStep =>
              /\ pc' = "errored"
              /\ log' = Append(log, Error)
        /\ pc = "errored" =>
              /\ pc' = "errored"
              /\ log' = log ]_vars

C12_Witness ==
    /\ pc = "errored"
    /\ log[Len(log)] = Error
    /\ IsEnqueue(log[Len(log) - 1], "chunk")
    /\ textStream # <<>>

----------------------------------------------------------------------------
(* C14: [FOUND:N] is enqueued exactly once per streamed request, after every  *)
(* catalog query and the extraction call have settled and the pool is built,  *)
(* and before the selection call is issued; never a second time and never     *)
(* after a narration chunk.                                                   *)

SearchCallPositions == {i \in 1..Len(log) : log[i].ev = "tmdbFetch" /\ ~IsDiscover(log[i])}

C14_FoundOnce ==
    /\ Cardinality(FoundPositions) <= 1
    /\ pc \in {"selecting", "narrating", "closed"} => Cardinality(FoundPositions) = 1
    /\ pc \in {"idle", "phase1", "phase2"} => FoundPositions = {}
    /\ \A i \in FoundPositions :
          /\ Len(discoverFetches) = 5
          /\ Len(descSearches) = Cardinality(SearchCallPositions)
          /\ \A j \in 1..Len(log) :
                /\ (log[j].ev = "tmdbFetch" \/ (log[j].ev = "generateObject" /\ ~IsSelectCall(log[j])))
                      => j < i
                /\ (IsSelectCall(log[j]) \/ log[j].ev = "streamText" \/ IsEnqueue(log[j], "chunk"))
                      => j > i
          /\ IsSelectCall(log[i + 1])

C14_Witness ==
    /\ pc = "closed"
    /\ Cardinality(FoundPositions) = 1
    /\ SearchCallPositions # {}
    /\ \E j \in 1..Len(log) : IsEnqueue(log[j], "chunk")


----------------------------------------------------------------------------
(* C13 *)

\* the handler answered with a JSON {error} body of this status and built no stream
AnsweredWithError(status) ==
    /\ pc = "returned"
    /\ response # None
    /\ response[1].status = status
    /\ response[1].contentType = "application/json"
    /\ response[1].error # ""
    /\ log = <<>>

\* C13: once a request has arrived, a missing OpenRouter or TMDB credential means the
\* answer is a 500 with a JSON error body, and (credentials present) a body that is not
\* parseable JSON means the answer is a 400 with a JSON error body; in both cases nothing
\* was enqueued and no catalog query or model call was issued, and a streaming response
\* is only ever returned when neither is the case.
C13_PreStreamFailures ==
    request # None =>
        /\ (~env.OPENROUTER_API_KEY \/ ~env.TMDB_API_KEY) => AnsweredWithError(500)
        /\ (env.OPENROUTER_API_KEY /\ env.TMDB_API_KEY /\ "json" \notin DOMAIN request[1])
              => AnsweredWithError(400)
        /\ (env.OPENROUTER_API_KEY /\ env.TMDB_API_KEY /\ "json" \in DOMAIN request[1])
              => (response = Some(StreamResponse) /\ log # <<>>)

C13_Witness ==
    /\ request # None
    /\ "json" \in DOMAIN request[1]
    /\ env.OPENROUTER_API_KEY
    /\ ~env.TMDB_API_KEY
    /\ AnsweredWithError(500)


----------------------------------------------------------------------------
(* C17 *)

\* the body with every omitted field written out as its documented default
Explicit(b) ==
    [f \in DOMAIN b |->
        IF b[f] # None THEN b[f]
        ELSE IF f = "country" THEN Some("US")
        ELSE IF f = "mediaType" THEN Some("movie")
        ELSE Some(<<>>)]

\* the kind and the region a request that carries body b is to be processed with
KindOf(b) == IF b.mediaType = None THEN "movie" ELSE b.mediaType[1]
RegionOf(b) == IF b.country = None THEN "US" ELSE b.country[1]

\* C17: a request without mediaType is processed as a movie request (discover and search
\* paths, first prompt line); watch_region on every discover query is the supplied region,
\* or US when none is supplied; and the calls issued, the prompt parts and the seen-title
\* filter are exactly those of the same body with its omitted lists written as empty lists
\* and its omitted description as the empty string.
C17_RequestDefaults ==
    LET ex == [country |-> Explicit(body).country[1],
               providerIds |-> Explicit(body).providerIds[1],
               mediaType |-> Explicit(body).mediaType[1],
               genres |-> Explicit(body).genres[1],
               moods |-> Explicit(body).moods[1],
               styles |-> Explicit(body).styles[1],
               description |-> Explicit(body).description[1],
               liked |-> Explicit(body).liked[1],
               disliked |-> Explicit(body).disliked[1]]
    IN  /\ pc = "phase1" =>
              /\ log = StartEvents(ex)
              /\ \A i \in 1..Len(log) : IsDiscover(log[i]) =>
                    /\ log[i].arg.path = (IF KindOf(body) = "movie" THEN "/discover/movie"
                                                                   ELSE "/discover/tv")
                    /\ log[i].arg.params["watch_region"] = RegionOf(body)
                    /\ body.providerIds = None =>
                          "with_watch_providers" \notin DOMAIN log[i].arg.params
                    /\ body.genres = None => "with_genres" \notin DOMAIN log[i].arg.params
              /\ body.description = None => \A i \in 1..Len(log) : log[i].ev # "generateObject"
        /\ pc = "phase2" =>
              \A i \in SearchCallPositions :
                  log[i].arg.path = (IF KindOf(body) = "movie" THEN "/search/movie"
                                                              ELSE "/search/tv")
        /\ JustBuilt =>
              LET call == log[Len(log)].arg IN
              /\ call.wants = (IF KindOf(body) = "movie" THEN "a movie" ELSE "a TV show")
              /\ call.prefsParts = PrefsParts(ex)
              /\ call.feedbackParts = FeedbackParts(ex)
              /\ body.moods = None => call.prefsParts.Mood = None
              /\ body.styles = None => call.prefsParts.Style = None
              /\ (body.liked = None /\ body.disliked = None) => poolSlice = Truncate(pool)
              /\ poolSlice = Truncate(FreshPool(pool, SeenTitles(ex.liked, ex.disliked)))

\* a request that omits everything but the description has built its pool
C17_Witness ==
    /\ JustBuilt
    /\ body.mediaType = None
    /\ body.country = None
    /\ body.moods = None
    /\ body.liked = None
    /\ body.description # None
    /\ SearchCallPositions # {}
    /\ \A i \in SearchCallPositions : log[i].arg.path = "/search/movie"
    /\ pool # <<>>


----------------------------------------------------------------------------
(* C18 *)

\* the pool after the seen-title filter, before truncation
FreshPoolOfRequest ==
    FreshPool(pool, SeenTitles(Destructure(body).liked, Destructure(body).disliked))

\* C18: N of [FOUND:N] is the size of the pool after the titles named in liked or
\* disliked have been filtered out, so an excluded item is not counted.
C18_FoundCountsFreshPool ==
    JustBuilt => FoundData = {FoundMarker(Len(FreshPoolOfRequest))}


----------------------------------------------------------------------------
(* C19 *)

\* C19 as stated: every pick the schema has let through has its index inside the
\* candidate list the call was given, [0, length of the truncated pool), and there are
\* between 3 and 5 picks.
C19_SchemaBoundsToPool ==
    picks # <<>> =>
        /\ Len(picks) >= MinPicks /\ Len(picks) <= MaxPicks
        /\ \A k \in 1..Len(picks) : picks[k].index >= 0 /\ picks[k].index < Len(poolSlice)

\* C19 (amended): every pick the schema has let through has an integer index in the fixed
\* range 0..29, the range of a full list of 30 candidates, whatever the length of the
\* truncated pool, and there are between 3 and 5 picks; an object outside these bounds
\* never becomes the selection.
C19_SchemaFixedRange ==
    /\ MaxIndex = MaxCandidates - 1
    /\ Len(poolSlice) <= MaxCandidates
    /\ picks # <<>> =>
          /\ Len(picks) >= MinPicks /\ Len(picks) <= MaxPicks
          /\ \A k \in 1..Len(picks) : picks[k].index \in 0..MaxIndex

\* a selection with index 29 was accepted for a pool shorter than 30
C19_Witness ==
    /\ picks # <<>>
    /\ Len(poolSlice) > 0
    /\ Len(poolSlice) < MaxCandidates
    /\ \E k \in 1..Len(picks) : picks[k].index = MaxIndex


----------------------------------------------------------------------------
(* C20 *)

\* the positions of p whose items are not seen, in ascending order
RECURSIVE UnseenPositions(_, _)
UnseenPositions(p, n) ==
    IF n = 0 THEN <<>>
    ELSE IF IsSeen(p[n]) THEN UnseenPositions(p, n - 1)
    ELSE Append(UnseenPositions(p, n - 1), n)

\* C20: the candidate list passed to curation is the first min(30, k) unseen items of the
\* pool, in pool order, k being the number of unseen items; it never has more than 30
\* items, none of them is a seen title, and the surviving items of the priority prefix
\* come first.
C20_Truncation ==
    JustBuilt =>
        LET unseen == UnseenPositions(pool, Len(pool))
            k == Len(unseen)
            n == IF k < 30 THEN k ELSE 30
            survivors == Cardinality({i \in 1..descCount : ~IsSeen(pool[i])})
            m == IF survivors < 30 THEN survivors ELSE 30
        IN  /\ Len(poolSlice) = n
            /\ Len(poolSlice) <= 30
            /\ \A i \in 1..n : poolSlice[i] = pool[unseen[i]]
            /\ \A i \in 1..Len(poolSlice) : ~IsSeen(poolSlice[i])
            /\ \A i \in 1..m : unseen[i] <= descCount

\* a seen title stood in the priority prefix of a pool with more than 30 unseen items,
\* so an item from beyond position 30 of the pool fills the last slot
C20_Witness ==
    /\ JustBuilt
    /\ Len(poolSlice) = 30
    /\ descCount >= 2
    /\ \E i \in 1..descCount : IsSeen(pool[i])
    /\ \E i \in 1..descCount : ~IsSeen(pool[i])
    /\ poolSlice[30] = pool[31]


----------------------------------------------------------------------------
(* C16 *)

\* the number of requests of key ip already allowed in the window that time t falls in
AllowedBefore(ip, t) ==
    IF windowOf[ip] = None \/ t > windowOf[ip][1].start + 60000 THEN 0
    ELSE windowOf[ip][1].allowed

\* C16: a request of a client key is let through to the route handler exactly when fewer
\* than 20 requests of that key were allowed before it in the 60-second window it falls
\* in (a window starts with the key's first request, or with its first request after the
\* previous window has expired, which is therefore always allowed); every other request
\* is answered 429 with the fixed message and the route handler is not run; a request
\* changes no other key's entry, and no window ever counts more than 20 allowed requests.
C16_RateLimit ==
    /\ [](\A k \in ClientKeys : windowOf[k] # None => windowOf[k][1].allowed <= 20)
    /\ [][ (served' # served \/ windowOf' # windowOf) =>
             LET s == served'[1] IN
             /\ s.next <=> AllowedBefore(s.ip, now) < 20
             /\ s.next => s.status = 200 /\ windowOf'[s.ip][1].allowed = AllowedBefore(s.ip, now) + 1
             /\ ~s.next => /\ s.status = 429
                           /\ s.error = "Too many requests. Please wait a minute."
                           /\ windowOf'[s.ip][1].allowed = 20
             /\ \A k \in ClientKeys \ {s.ip} : rateMap'[k] = rateMap[k] ]_vars

\* a key that has used its 20 requests is refused in the last millisecond of its window
\* while the other key is still being served
C16_Witness ==
    /\ served # None
    /\ served[1].status = 429
    /\ ~served[1].next
    /\ windowOf[served[1].ip][1].allowed = 20
    /\ now = windowOf[served[1].ip][1].start + 60000
    /\ \E k \in ClientKeys \ {served[1].ip} :
          windowOf[k] # None /\ windowOf[k][1].allowed \in 1..19

----------------------------------------------------------------------------
(* C15 *)

\* the place of a status in the order idle, searching, found, streaming, terminal
Rank(status) ==
    CASE status = "idle" -> 0
      [] status = "searching" -> 1
      [] status = "found" -> 2
      [] status = "streaming" -> 3
      [] status \in {"done", "error"} -> 4

\* C15: the statuses the client sets while it reads one response only move forward along
\* idle, searching, found, streaming, done, with error as the other terminal status,
\* reachable from searching, found and streaming; a status once left is never set again,
\* found is set at most once, and nothing is set after done or error.
C15_ForwardOnly ==
    /\ searchState.status = statusTrace[Len(statusTrace)]
    /\ \A i, j \in 1..Len(statusTrace) :
          i < j =>
             /\ Rank(statusTrace[i]) <= Rank(statusTrace[j])
             /\ Rank(statusTrace[i]) = Rank(statusTrace[j]) =>
                   (statusTrace[i] = "streaming" /\ statusTrace[j] = "streaming")
    /\ Cardinality({i \in 1..Len(statusTrace) : statusTrace[i] = "found"}) <= 1
    /\ submit.pc = "returned" <=> searchState.status \in {"done", "error"}

\* a response whose text holds a second marker was read in several chunks up to its end
C15_Witness ==
    /\ statusTrace = <<"idle", "searching", "found", "streaming", "streaming", "done">>
    /\ searchState.foundCount = Some(3)
    /\ Match(searchState.completion) # None


----------------------------------------------------------------------------
(* C21 *)

SelectPositions == {i \in 1..Len(log) : IsSelectCall(log[i])}
NarratePositions == {i \in 1..Len(log) : log[i].ev = "streamText"}

\* the lines of a text joined with "\n" (no line of the model holds a newline)
RECURSIVE SplitLines(_)
SplitLines(text) ==
    IF text = <<>> THEN <<>>
    ELSE LET ends == {i \in 1..Len(text) : text[i] = 10} IN
         IF ends = {} THEN <<text>>
         ELSE LET e == CHOOSE x \in ends : \A y \in ends : x <= y
              IN  <<SubSeq(text, 1, e - 1)>> \o SplitLines(SubSeq(text, e + 1, Len(text)))

\* line begins with the title of pool item r followed by " ("
NamesItem(line, r) ==
    LET t == (IF r.title # None THEN r.title[1]
              ELSE IF r.name # None THEN r.name[1] ELSE strUnknown) \o <<32, 40>>
    IN  Len(line) >= Len(t) /\ SubSeq(line, 1, Len(t)) = t

\* C21: in one streamed request the selection call is issued at most once and the
\* narration call at most once; the narration call comes after the selection call, only
\* once the selection has returned, and its prompt has one line per validated pick, in the
\* order of the picks, each naming the pool item its pick points at, and no other line.
C21_SequentialCuration ==
    /\ Cardinality(SelectPositions) <= 1
    /\ Cardinality(NarratePositions) <= 1
    /\ pc = "selecting" => NarratePositions = {}
    /\ \A j \in NarratePositions :
          /\ picks # <<>>
          /\ \E i \in SelectPositions : i < j
          /\ LET lines == SplitLines(log[j].arg.prompt)
                 kept == SubseqAt(picks, ValidPositions)
             IN  /\ Len(lines) = Len(kept)
                 /\ \A k \in 1..Len(lines) : NamesItem(lines[k], poolSlice[kept[k].index + 1])

\* a request whose selection returned more picks than were valid has been narrated
C21_Witness ==
    /\ pc = "closed"
    /\ Cardinality(SelectPositions) = 1
    /\ Cardinality(NarratePositions) = 1
    /\ Len(pickedItems) >= 2
    /\ Len(picks) > Len(pickedItems)


----------------------------------------------------------------------------
(* C22 *)

ExtractPositions ==
    {i \in 1..Len(log) : log[i].ev = "generateObject" /\ log[i].arg.purpose = "extract"}
DiscoverPositions == {i \in 1..Len(log) : IsDiscover(log[i])}

\* the description the request carries holds a character that is not white space
HasDescription ==
    /\ body.description # None
    /\ \E i \in 1..Len(body.description[1]) : ~IsWhiteSpace(body.description[1][i])

\* C22: once the request streams, the extraction call has been issued exactly when the
\* description is non-empty after trimming, and it is in flight together with the five
\* discover queries (all are issued before any has settled); search queries exist only
\* when the extraction call succeeded, one per returned phrase followed by one per returned
\* title, at most 6; each is issued after the extraction call and all five discover
\* queries have settled, and none carries watch_region or with_watch_providers.
C22_FanOut ==
    pc \notin {"idle", "returned"} =>
        /\ Cardinality(ExtractPositions) = (IF HasDescription THEN 1 ELSE 0)
        /\ Cardinality(DiscoverPositions) = 5
        /\ pc = "phase1" =>
              /\ discoverFetches = <<>>
              /\ SearchCallPositions = {}
              /\ \A i \in 2..Len(log) : i \in ExtractPositions \cup DiscoverPositions
        /\ SearchCallPositions # {} =>
              /\ Len(discoverFetches) = 5
              /\ filterResult.status = "fulfilled"
              /\ filterResult.value # None
              /\ ExtractPositions # {}
        /\ (filterResult.status = "fulfilled" /\ filterResult.value # None) =>
              LET o == filterResult.value[1].object
                  terms == o.searchQueries \o o.similarTitles
                  first == Cardinality(ExtractPositions) + 6
              IN  /\ Cardinality(SearchCallPositions) = Len(terms)
                  /\ SearchCallPositions = {first + k : k \in 1..Len(terms)}
                  /\ \A k \in 1..Len(terms) : log[first + k].arg.params["query"] = terms[k]
        /\ filterResult.status = "rejected" => SearchCallPositions = {}
        /\ Cardinality(SearchCallPositions) <= 6
        /\ \A i \in SearchCallPositions :
              /\ \A j \in ExtractPositions \cup DiscoverPositions : j < i
              /\ "watch_region" \notin DOMAIN log[i].arg.params
              /\ "with_watch_providers" \notin DOMAIN log[i].arg.params

\* two phrases and one title were searched for a request that names providers and a region
C22_Witness ==
    /\ pc = "phase2"
    /\ Cardinality(SearchCallPositions) = 3
    /\ body.providerIds # None
    /\ \E i \in 1..Len(discoverFetches) : discoverFetches[i].status = "rejected"


----------------------------------------------------------------------------
(* C23 *)

ChunkPositions == {i \in 1..Len(log) : IsEnqueue(log[i], "chunk")}

\* the data of the narration chunks enqueued so far, in the order of the enqueues
EnqueuedChunks == [k \in 1..Cardinality(ChunkPositions) |-> SubseqAt(log, ChunkPositions)[k].arg.data]

\* C23: no chunk is on the stream before the narration call is issued; while the
\* narration is read, the chunks enqueued so far followed by the chunks the call has still
\* to emit are always the same sequence, and each step enqueues at most one more, so the
\* chunks reach the stream one by one, unchanged and in order; the stream is closed only
\* when none is left, and then the enqueued chunks are a whole output of the call.
C23_NarrationForwarding ==
    /\ [](pc \in {"idle", "returned", "phase1", "phase2", "selecting"} => ChunkPositions = {})
    /\ [](pc = "closed" => (textStream = <<>> /\ EnqueuedChunks \in NarrationOutputs
                            /\ log[Len(log)] = Close
                            /\ \A i \in ChunkPositions : i < Len(log)))
    /\ [][ pc = "narrating" =>
             /\ EnqueuedChunks' \o textStream' = EnqueuedChunks \o textStream
             /\ Len(EnqueuedChunks') <= Len(EnqueuedChunks) + 1
             /\ SubSeq(log', 1, Len(log)) = log
             /\ pc' = "closed" => textStream = <<>> ]_vars

\* both chunks of a narration were forwarded and the stream was closed
C23_Witness ==
    /\ pc = "closed"
    /\ Len(EnqueuedChunks) = 2
    /\ EnqueuedChunks[1] # EnqueuedChunks[2]
    /\ pickedItems # <<>>


----------------------------------------------------------------------------
(* C24 *)

ClosePositions == {i \in 1..Len(log) : log[i] = Close}
ErrorPositions == {i \in 1..Len(log) : log[i] = Error}

\* the stream of the request has started and has neither been closed nor errored
Streaming == pc \in {"phase1", "phase2", "selecting", "narrating"}

\* C24: when every call eventually settles and the text stream is finite, a request that
\* has started streaming eventually has its stream closed or errored; a closed stream was
\* closed once and never errored, an errored stream was errored once and never closed,
\* and a stream that is still open has been neither.
C24_Termination ==
    /\ Streaming ~> (pc \in {"closed", "errored"})
    /\ [](pc = "closed" => (Cardinality(ClosePositions) = 1 /\ ErrorPositions = {}))
    /\ [](pc = "errored" => (Cardinality(ErrorPositions) = 1 /\ ClosePositions = {}))
    /\ [](Streaming => (ClosePositions = {} /\ ErrorPositions = {}))
    /\ [][ (pc = "closed" \/ pc = "errored") => (pc' = pc /\ log' = log) ]_vars

\* a request whose searches partly failed ran through narration to a closed stream
C24_Witness ==
    /\ pc = "closed"
    /\ Cardinality(ClosePositions) = 1
    /\ \E i \in 1..Len(descSearches) : descSearches[i].status = "rejected"
    /\ ChunkPositions # {}


----------------------------------------------------------------------------
(* C25 *)

\* how many catalog queries and model calls the history holds
CallCount(l) == Cardinality({i \in 1..Len(l) : IsCall(l[i])})

\* C25: once the response stream has been cancelled, no step of the pipeline starts a
\* catalog query or a model call, and no step reads a further chunk of the narration.
C25_AbandonsOnDisconnect ==
    [][ cancelled => (CallCount(log') = CallCount(log) /\ textStream' = textStream) ]_vars


----------------------------------------------------------------------------
(* C26 *)

\* C26: once a second request has been submitted, no step of the earlier handleSubmit
\* (a chunk it reads, the end of its response, a failure) changes the search state.
C26_EarlierResponseIgnored ==
    [][ (earlier # NoLocals /\ earlier' # earlier) => searchState' = searchState ]_vars


----------------------------------------------------------------------------
(* C27 *)

\* C27: a request that the limiter refuses leaves the whole Map as it was, so neither the
\* count nor the resetAt of the client's entry changes; and in every reachable state each
\* stored entry has a count between 1 and 20.
C27_DeniedLeavesState ==
    /\ [](\A k \in ClientKeys : rateMap[k] # None => rateMap[k][1].count \in 1..20)
    /\ [][ (served' # served /\ served'[1].status = 429) => rateMap' = rateMap ]_vars

\* a client key has just been refused for the first time: its entry is full, and its
\* window has not ended
C27_Witness ==
    /\ served # None
    /\ served[1].status = 429
    /\ rateMap[served[1].ip] # None
    /\ rateMap[served[1].ip][1].count = 20
    /\ now < rateMap[served[1].ip][1].resetAt
    /\ now > 0


----------------------------------------------------------------------------
(* C28 *)

\* C28: the sweep removes only entries whose window has expired and touches no other
\* entry; and whatever sweeps ran before it, every request gets the decision, the
\* remaining count and the reset time that the limiter would return had no sweep ever run.
C28_SweepTransparent ==
    /\ [][ nextSweep' # nextSweep =>
             \A k \in ClientKeys :
                \/ rateMap'[k] = rateMap[k]
                \/ rateMap'[k] = None /\ now > rateMap[k][1].resetAt ]_vars
    /\ [][ (served' # served \/ windowOf' # windowOf) =>
             LET s == served'[1]
                 u == CheckRateLimit(unswept, s.ip, now)
             IN  /\ s.next = u.allowed
                 /\ s.remaining = u.remaining
                 /\ s.reset = CeilSeconds(u.resetAt) ]_vars

\* a sweep has removed the entry of a client key, and the key has been served since
C28_Witness ==
    /\ served # None
    /\ nextSweep > SWEEP_INTERVAL_MS
    /\ \E k \in ClientKeys :
          /\ rateMap[k] = None
          /\ unswept[k] # None
    /\ rateMap[served[1].ip] # None
    /\ rateMap[served[1].ip] = unswept[served[1].ip]
    /\ rateMap[served[1].ip][1].resetAt > SWEEP_INTERVAL_MS


----------------------------------------------------------------------------
(* C29 *)

\* the number in the first [FOUND:N] marker of the bytes b, if there is one
FirstFound(b) == IF Match(b) = None THEN None ELSE Some(ParseInt(Match(b)[1].group))

\* everything in b after its first [FOUND:N] marker
AfterFirstMarker(b) ==
    IF Match(b) = None THEN <<>>
    ELSE SliceFrom(b, Match(b)[1].index + Match(b)[1].length)

\* the bytes of the response have all been read and the stream has ended
ReadToTheEnd ==
    /\ submit.pc = "returned"
    /\ searchState.status = "done"
    /\ submit.buffer \in {b.bytes : b \in StreamedBodies}

\* C29 as stated: however the response was split into chunks, the client ends with the
\* found count of the first marker and with everything after that marker as completion.
C29_CompletionIsRest ==
    (submit.pc = "returned" /\ searchState.status = "done") =>
        /\ ReadToTheEnd
        /\ searchState.foundCount = FirstFound(submit.buffer)
        /\ searchState.completion = AfterFirstMarker(submit.buffer)

\* C29, amended: however the bytes read so far were split into chunks, the found count is
\* the one of the first marker among them and the completion is everything after that
\* marker, unless that text is empty or white space only: then the completion stays
\* empty. When the stream has ended the bytes read are the whole response.
C29_ChunkingIndependent ==
    /\ (submit.pc = "returned" /\ searchState.status = "done") => ReadToTheEnd
    /\ (submit.pc = "reading" \/ (submit.pc = "returned" /\ searchState.status = "done")) =>
          /\ searchState.foundCount = FirstFound(submit.buffer)
          /\ searchState.completion =
                IF Trim(AfterFirstMarker(submit.buffer)) = <<>> THEN <<>>
                ELSE AfterFirstMarker(submit.buffer)

\* a response whose text after the marker is white space has been read to its end
C29_Witness ==
    /\ ReadToTheEnd
    /\ searchState.foundCount = Some(5)
    /\ AfterFirstMarker(submit.buffer) = strBlank
    /\ searchState.completion = <<>>


----------------------------------------------------------------------------
(* C30 *)

\* the positions in the history of the calls of controller.enqueue
EnqueuePositions == {i \in 1..Len(log) : log[i].ev = "enqueue"}

\* C30: whatever the upstream calls do, no enqueue follows a close or an error of the
\* response stream, close is called at most once, and close and error are never both
\* called for the same request.
C30_StreamLifecycle ==
    /\ \A i \in ClosePositions \cup ErrorPositions : \A j \in EnqueuePositions : j < i
    /\ Cardinality(ClosePositions) <= 1
    /\ ClosePositions = {} \/ ErrorPositions = {}

\* the text stream failed after part of the narration had been forwarded: the stream was
\* errored with chunks still undelivered, and nothing was enqueued or closed afterwards
C30_Witness ==
    /\ pc = "errored"
    /\ ChunkPositions # {}
    /\ textStream # <<>>
    /\ ErrorPositions = {Len(log)}
    /\ ClosePositions = {}

====
